---- MODULE Spec2Model ----
(***************************************************************************)
(* Model of the oneDNN Graph partitioning / compilation / execution core   *)
(* bundled under third_party/ideep/mkl-dnn:                                *)
(*   - kernel execution with the global constant cache                     *)
(*     (backend/dnnl/kernels/matmul.hpp, pool.hpp)  : SpecExec,            *)
(*                                                    SpecExecFair         *)
(*   - the pass pipeline (backend/dnnl/passes/utils.hpp)      : SpecPipe   *)
(*   - the partitioner (graph_compiler/patterns/pattern_utils.hpp)         *)
(*                                                            : SpecPart   *)
(*   - the memory planner of a compiled partition             : SpecPlan   *)
(*   - graph construction and shape inference                              *)
(*     (interface/graph.hpp)                                  : SpecGraph  *)
(*   - kernel compilation (kernel_base_t::compile, compile_impl)           *)
(*                                                            : SpecCompile*)
(*   - kernels created and destroyed at one address           : SpecLife   *)
(*   - the backend's pass registry and get_partitions                      *)
(*     (backend/dnnl/dnnl_backend.hpp, utils/pm/pass_manager.hpp)          *)
(*                                                            : SpecBackend*)
(*   - the pass lists of compile_impl, run by two kernels     : SpecBuild  *)
(*   - matching of chain patterns                                          *)
(*     (graph_compiler/patterns/mha_pattern.hpp)              : SpecMatch  *)
(*   - copy construction of a graph (interface/graph.hpp)     : SpecCopy   *)
(*   - the layout id manager (backend/dnnl/dnnl_backend.hpp)  : SpecLayout *)
(*   - the buffer scheduler of the graph compiler                          *)
(*     (graph_compiler/core/.../buffer_schedule.hpp)          : SpecSched  *)
(* and of two pieces of the surrounding PyTorch tree:                      *)
(*   - FunctionSchema::is_mutable                                          *)
(*     (test/cpp/jit/test_schema_info.cpp)                    : SpecSchema *)
(*   - c10d::ReduceOp (torch/csrc/distributed/c10d/Types.hpp) : SpecReduce *)
(* Each specification drives one component and leaves the variables of the *)
(* other components at their initial values.                               *)
(***************************************************************************)
EXTENDS Integers, Sequences, FiniteSets, TLC

(***************************************************************************)
(* Bounds                                                                  *)
(***************************************************************************)
\* number of threads that call execute on the one compiled kernel
NumThreads == 2
\* number of scheduled ops of the compiled subgraph (subgraph_->execs_.size())
NumOps == 3
\* number of execute calls each thread makes
MaxCalls == 2
\* number of add_pass calls made on one pipeline
MaxPasses == 3
\* number of ops of the graph handed to the partitioner
NumGraphOps == 3
\* number of values of that graph that have no producer
NumGraphInputs == 1
\* number of patterns applied to the graph, one after the other
NumPatterns == 2
\* number of values of that graph whose logical tensor is not dense strided
MaxOpaque == 1
\* number of inputs an op of that graph has at most
MaxInputs == 2
\* number of internal temporary buffers of a compiled partition
NumBufs == 3
\* number of distinct op ids the caller of add_op uses
MaxOpId == 3
\* number of kernels that live at one address, one after the other
MaxKernels == 2
\* number of passes registered with the backend
MaxRegistered == 3
\* number of ops of the graph the registered patterns compete for
NumClaimOps == 2
\* number of kernels compiled over structurally identical subgraphs
NumCompiles == 2
\* number of op objects (and of value objects) the heap of graphs can hold
MaxObjs == 4
\* number of partition objects created for the graphs
MaxPartitionObjs == 2
\* number of memory descriptors that compare unequal to one another
NumDescs == 2
\* number of set_mem_desc calls each thread makes
MaxSetCalls == 2
\* number of local tensors of the function given to the buffer scheduler
NumTensors == 3
\* number of statements of that function, one tick each
MaxTick == 4
\* number of arguments a function schema declares at most
MaxArgs == 3
\* number of ReduceOp objects, and of supplement objects they may point to
NumReduceOps == 2
\* number of ops of the subgraph handed to compile_impl
MaxSgOps == 2
\* number of ops of the candidate graph a chain pattern is matched against
NumChainOps == 5

Threads == 1..NumThreads
ExecOps == 1..NumOps


\* status values an op execution hands back
OpStatuses == {"success", "invalid_shape", "unsupported"}

VARIABLES
    \* ---- kernel execution (matmul_t / pooling_fwd_t / pooling_bwd_t) ----
    enable_constant_cache_,  \* kernel field, fixed at construction
    is_constant_,            \* subgraph_->is_constant_, one bit per scheduled op
    constant_cache,          \* the global constant cache entry of constant_key_
    next_buffer,             \* identity of the next constant_buffer_t allocated
    const_runs,              \* per op: how often it ran in a constant-fold loop
    pc,                      \* per thread: position inside execute_impl
    idx,                     \* per thread: loop variable i
    calls,                   \* per thread: execute calls completed
    res,                     \* per thread: thread-local execution_args_set_t
    scratchpad,              \* per thread: temporary_scratchpad_t is alive
    c_buffer,                \* per thread: local c_buffer of the fold branch
    execd,                   \* per thread: ops executed in the current call
    first_fail,              \* per thread: first non-success op status of the call
    ran_after_fail,          \* per thread: an op ran after a failed one
    ret,                     \* per thread: status the last finished call returned
    blocked,                 \* per thread: the call found a pending cache entry
    tl_cache,                \* thread_local_cache_t: per slot, the argument set
                             \* stored for this kernel (0: none)
    ctor_calls,              \* per thread: how often resource_ctor_ ran on it
    binders,                 \* per argument set: threads that bound handles in it
    prev_failed,             \* per thread: an op failed in a call it finished
    c_data,                  \* <<buffer, op>>: the buffer holds the result of
                             \* the constant op
    out,                     \* per thread: what the non-constant ops of the
                             \* current call computed
    outs,                    \* outputs of the calls finished on this kernel
    kernel_gen,              \* how many kernels have lived at this address
    tl_gen,                  \* per slot: the kernel its argument set was
                             \* constructed for (0: none)
    cache_gen,               \* the kernel the constant cache entry of this
                             \* address was installed for (0: none)
    \* ---- pass pipeline (pass_pipeline_t) ----
    passes_,                 \* the added passes
    names_,                  \* their names
    is_layout_sensitives_,   \* visualize arguments recorded per pass
    is_memory_sensitives_,
    is_layout_sensitive_,    \* the current visualize arguments
    is_memory_sensitive_,
    add_order,               \* the passes handed to add_pass, in call order
    pipe_pc,                 \* position inside pass_pipeline_t::run
    pipe_i,                  \* loop variable i of run
    pipe_ret,                \* status returned by run
    pipe_log,                \* pass / visualizer / validator invocations of run
    \* ---- partitioner (pattern_utils_t on a graph_t) ----
    g_consumers,             \* per value: the ops consuming it
    g_lt,                    \* per value: its logical tensor
    g_partition,             \* per op: op_t::get_partition() (0: nullptr)
    partition_impls_,        \* graph_t::partition_impls_
    fusion_ops,              \* the matches collected by the last match call
    pattern_no,              \* the pattern being applied
    part_pc,                 \* "match", "set_partitions" or "done"
    visited,                 \* ops match has visited for the current pattern
    pairs_i,                 \* set_partitions: index of the match in progress
    \* ---- memory planner (memory_planner_t::run on a compiled partition) ----
    buf_size,                \* per internal temporary buffer: its byte size
    buf_life,                \* per buffer: <<first-use tick, last-use tick>>
    inplace_of,              \* per buffer: the buffer it reuses in place (0: none)
    buf_offset,              \* per buffer: assigned offset (-1: not planned)
    planned,                 \* buffers the planner has placed
    total_temporary,         \* total size of the temporary arena
    \* ---- graph construction and shape inference (dnnl_graph_graph) ----
    ops_,                    \* graph_t::ops_, the added ops
    val_shape,               \* per value: shape of its logical tensor
    g_fn,                    \* the last call made on the graph
    l_n_in,                  \* add_op: the op as the caller handed it in
    l_n_out,                 \* add_op: the caller's op after the call
    g_ret,                   \* status the last finished call returned
    infer_pc,                \* position inside infer_shape
    infer_visited,           \* ids of the ops the visitor has been called on
    outer_linked,            \* whether the ops outside the graph are linked
                             \* to the values as their consumers
    \* ---- kernel compilation (kernel_base_t::compile, compile_impl) ----
    compile_pc,              \* "start", "pipeline" or "returned"
    bind_ret,                \* status of set_given_inputs_outputs
    resource_ctor_,          \* the kernel holds a resource constructor
    inplace_pairs_,          \* the in-place pairs have been prepared
    given_lts,               \* the caller's input/output logical tensors
    compile_ret,             \* status returned by compile
    \* ---- backend (dnnl_backend::get_partitions, pass_registry_t) ----
    registry_passes_,        \* pass_registry_t::passes_ of the backend
    disable_dnnl_bkd,        \* get_partitions: the two environment toggles
    enable_large_partition,
    filtered_registry,       \* get_partitions: passes_ of filtered_registry
    bk_pc,                   \* "register", "ready", "filter", "run", "done"
    bk_i,                    \* loop variable of the filter and the run loop
    bk_log,                  \* the passes run on the graph, in order
    op_owner,                \* per op of the graph: the pass that claimed it
    \* ---- compile_impl of two kernels over identical subgraphs ----
    kb_kernel,               \* "matmul" or "pooling_fwd"
    quantized,               \* template argument of the kernel class
    kb_pc,                   \* per kernel: "add", "run" or "done"
    kb_added,                \* per kernel: names of the passes added, in order
    kb_ran,                  \* per kernel: names of the passes run, in order
    kb_sg,                   \* per kernel: its subgraph_
    kb_ret,                  \* per kernel: status compile_impl returns
    kb_data_types,           \* data types of inputs[0] and of outputs[0]
    kb_exec,                 \* per kernel: number of execute calls made,
                             \* whether its constants are in the cache, and
                             \* the ops the last call executed, in order
    \* ---- pattern matching of an op chain (pattern_utils_t::match) ----
    pm_kind,                 \* per op of the candidate graph: its op kind
    pm_ext,                  \* ops whose output has a consumer outside the chain
    pm_pgraph,               \* the pattern graph handed to match
    pm_cur,                  \* the op the visit of match has reached
    pm_fusion,               \* fusion_ops: the matches collected
    \* ---- copy construction of a graph (dnnl_graph_graph copy ctor) ----
    op_objs,                 \* heap of op_t objects; the address is the index
    value_objs,              \* heap of value_t objects: their logical tensor
    n_partition_objs,        \* number of partition_impl_t objects created
    cp_ops_,                 \* per graph: ops_, shared pointers to op objects
    cp_partition_impls_,     \* per graph: partition_impls_, shared pointers
    cp_last,                 \* the last operation, the graph it was made on
                             \* and the contents of the other graph before it
    \* ---- layout_id_manager_t ----
    mem_descs_data_,         \* mem_descs_.data_, the table of descriptors
    mem_descs_m_,            \* mem_descs_.m_: 0, or the thread that holds it
    lm_pc,                   \* per thread: "idle", "find" or "return"
    lm_mem_desc,             \* per thread: the argument of set_mem_desc
    lm_pos,                  \* per thread: pos, the result of std::find_if
    lm_calls,                \* per thread: number of calls made
    lm_issued,               \* the calls that returned: descriptor, layout id
    \* ---- buffer_scheduler_t ----
    bs_prog,                 \* the statements of the function, in tick order
    bs_ticks,                \* per tensor: the ticks collected for it
    bs_buf,                  \* per tensor: the tensor that replaced it
    bs_cur,                  \* 0 before the ticks are collected, then "cur"
    \* ---- c10::FunctionSchema::is_mutable ----
    fs_decl,                 \* the argument declarations given to parseSchema
    fs_arguments,            \* arguments() of the schema parsed from them
    fs_call,                 \* the last is_mutable call and what came of it
    \* ---- c10d::ReduceOp ----
    reduce_ops               \* per ReduceOp object: its op_ and supplement_

execVars == <<enable_constant_cache_, is_constant_, constant_cache, next_buffer,
              const_runs, pc, idx, calls, res, scratchpad, c_buffer, execd,
              first_fail, ran_after_fail, ret, blocked, tl_cache, ctor_calls,
              binders, prev_failed, c_data, out, outs, kernel_gen, tl_gen,
              cache_gen>>

pipeVars == <<passes_, names_, is_layout_sensitives_, is_memory_sensitives_,
              is_layout_sensitive_, is_memory_sensitive_, add_order, pipe_pc,
              pipe_i, pipe_ret, pipe_log>>

partVars == <<g_consumers, g_lt, g_partition, partition_impls_, fusion_ops,
              pattern_no, part_pc, visited, pairs_i>>

planVars == <<buf_size, buf_life, inplace_of, buf_offset, planned,
              total_temporary>>

graphVars == <<ops_, val_shape, g_fn, l_n_in, l_n_out, g_ret, infer_pc,
               infer_visited, outer_linked>>

compileVars == <<compile_pc, bind_ret, resource_ctor_, inplace_pairs_,
                 given_lts, compile_ret>>

bkVars == <<registry_passes_, disable_dnnl_bkd, enable_large_partition,
            filtered_registry, bk_pc, bk_i, bk_log, op_owner>>

kbVars == <<kb_kernel, quantized, kb_pc, kb_added, kb_ran, kb_sg, kb_ret,
            kb_data_types, kb_exec>>

pmVars == <<pm_kind, pm_ext, pm_pgraph, pm_cur, pm_fusion>>

copyVars == <<op_objs, value_objs, n_partition_objs, cp_ops_,
              cp_partition_impls_, cp_last>>

\* the components that came first, and the ones added after them
coreVars == <<execVars, pipeVars, partVars, planVars, graphVars, compileVars,
              bkVars, kbVars, pmVars>>

lmVars == <<mem_descs_data_, mem_descs_m_, lm_pc, lm_mem_desc, lm_pos,
            lm_calls, lm_issued>>

bsVars == <<bs_prog, bs_ticks, bs_buf, bs_cur>>

fsVars == <<fs_decl, fs_arguments, fs_call>>

lateVars == <<copyVars, lmVars, bsVars, fsVars, reduce_ops>>

vars == <<coreVars, lateVars>>

(***************************************************************************)
(* Kernel execution                                                        *)
(***************************************************************************)
NoBuffer == 0

\* a thread's execution_args_set_t before resource_ctor_ has run
NoRes == [created |-> FALSE, external |-> FALSE, temporary |-> FALSE,
          persistent |-> NoBuffer]

\* the kernel after compile_impl and before any execute call
ExecInit ==
    /\ enable_constant_cache_ \in BOOLEAN
    /\ is_constant_ \in [ExecOps -> BOOLEAN]
    \* is_constant_ bits are only set by the constant_propagation passes,
    \* which compile_impl adds only when the constant cache is enabled
    /\ (~enable_constant_cache_ => \A k \in ExecOps : ~is_constant_[k])
    /\ constant_cache = [installed |-> FALSE, ready |-> FALSE, buf |-> NoBuffer]
    /\ next_buffer = 1
    /\ const_runs = [k \in ExecOps |-> 0]
    /\ pc = [t \in Threads |-> "idle"]
    /\ idx = [t \in Threads |-> 0]
    /\ calls = [t \in Threads |-> 0]
    /\ res = [t \in Threads |-> NoRes]
    /\ scratchpad = [t \in Threads |-> FALSE]
    /\ c_buffer = [t \in Threads |-> NoBuffer]
    /\ execd = [t \in Threads |-> <<>>]
    /\ first_fail = [t \in Threads |-> "success"]
    /\ ran_after_fail = [t \in Threads |-> FALSE]
    /\ ret = [t \in Threads |-> "none"]
    /\ blocked = [t \in Threads |-> FALSE]
    /\ tl_cache = [s \in Threads |-> 0]
    /\ ctor_calls = [t \in Threads |-> 0]
    /\ binders = [a \in Threads |-> {}]
    /\ prev_failed = [t \in Threads |-> FALSE]
    /\ c_data = {}
    /\ out = [t \in Threads |-> <<>>]
    /\ outs = {}
    /\ kernel_gen = 1
    /\ tl_gen = [s \in Threads |-> 0]
    /\ cache_gen = 0

\* the execution components at rest, for the specifications of other components
ExecIdle ==
    /\ ExecInit
    /\ ~enable_constant_cache_

\* thread_local_cache_t::get_or_add: the calling thread's argument set,
\* constructed through resource_ctor_ on the thread's first call
get_or_add_res(r) == IF r.created THEN r ELSE [NoRes EXCEPT !.created = TRUE]

\* a cache whose storage is one map shared by all threads
process_wide_slot(t) == 1

\* thread_local_cache_t<execution_args_set_t> res_cache: the storage the
\* calling thread looks the key of this kernel up in is the thread's own
thread_local_slot(t) == t

\* the argument set thread t works on (0: none); a set is named after the
\* thread on which resource_ctor_ constructed it
res_of(t) == tl_cache[thread_local_slot(t)]

\* a kernel that turns a thread away once one of its calls has failed
execute_refused_after_failure(t) == ~prev_failed[t]

\* kernel_base_t::execute hands every call on to execute_impl: no state of
\* the kernel is tested
execute_dispatches(t) == TRUE

\* execute_impl up to the constant-cache branch: thread-local resource lookup,
\* binding of the external inputs/outputs, scratchpad acquisition and binding
\* of the internal temporaries
ExecuteBegin(t) ==
    /\ pc[t] = "idle"
    /\ calls[t] < MaxCalls
    /\ execute_dispatches(t)
    /\ LET hit == res_of(t) # 0
           arg_set == IF hit THEN res_of(t) ELSE t
       IN /\ tl_cache' = [tl_cache EXCEPT ![thread_local_slot(t)] = arg_set]
          /\ ctor_calls' = [ctor_calls EXCEPT
                              ![t] = IF hit THEN @ ELSE @ + 1]
          /\ binders' = [binders EXCEPT ![arg_set] = @ \cup {t}]
          /\ tl_gen' = [tl_gen EXCEPT ![thread_local_slot(t)] =
                                         IF hit THEN @ ELSE kernel_gen]
    /\ out' = [out EXCEPT ![t] = <<>>]
    /\ blocked' = [blocked EXCEPT ![t] = FALSE]
    /\ res' = [res EXCEPT ![t] = [get_or_add_res(res[t]) EXCEPT
                                    !.external = TRUE, !.temporary = TRUE]]
    /\ scratchpad' = [scratchpad EXCEPT ![t] = TRUE]
    /\ execd' = [execd EXCEPT ![t] = <<>>]
    /\ first_fail' = [first_fail EXCEPT ![t] = "success"]
    /\ ran_after_fail' = [ran_after_fail EXCEPT ![t] = FALSE]
    /\ ret' = [ret EXCEPT ![t] = "none"]
    /\ IF enable_constant_cache_
          THEN /\ pc' = [pc EXCEPT ![t] = "get_or_add"]
               /\ idx' = idx
          ELSE /\ pc' = [pc EXCEPT ![t] = "run"]
               /\ idx' = [idx EXCEPT ![t] = 1]
    /\ UNCHANGED <<enable_constant_cache_, is_constant_, constant_cache,
                   next_buffer, const_runs, calls, c_buffer, prev_failed,
                   c_data, outs, kernel_gen, cache_gen>>

\* constant_cache_t::get_or_add(constant_key_, c_promise.get_future()):
\* under the cache mutex, return the entry already stored for the key, or
\* install the caller's pending future and return an invalid (empty) value
cache_get_or_add(cache) ==
    IF cache.installed
       THEN [value_valid |-> TRUE, cache |-> cache]
       ELSE [value_valid |-> FALSE,
             cache |-> [cache EXCEPT !.installed = TRUE]]

\* a branch that never takes the cached value
is_from_cache_never(lookup) == FALSE

\* is_from_cache = cached_value.valid()
is_from_cache(lookup) == lookup.value_valid

\* the lookup in the global constant cache and the branch on is_from_cache;
\* in the fold branch the thread allocates its c_buffer and binds the
\* persistent memories of its argument set to it
ConstantCacheLookup(t) ==
    /\ pc[t] = "get_or_add"
    /\ LET lookup == cache_get_or_add(constant_cache) IN
       /\ constant_cache' = lookup.cache
       /\ cache_gen' = IF constant_cache.installed THEN cache_gen
                                                   ELSE kernel_gen
       /\ blocked' = [blocked EXCEPT
                        ![t] = is_from_cache(lookup) /\ ~constant_cache.ready]
       /\ IF is_from_cache(lookup)
             THEN /\ pc' = [pc EXCEPT ![t] = "wait"]
                  /\ UNCHANGED <<next_buffer, c_buffer, res, idx>>
             ELSE /\ pc' = [pc EXCEPT ![t] = "fold"]
                  /\ c_buffer' = [c_buffer EXCEPT ![t] = next_buffer]
                  /\ next_buffer' = next_buffer + 1
                  /\ res' = [res EXCEPT ![t].persistent = next_buffer]
                  /\ idx' = [idx EXCEPT ![t] = 1]
    /\ UNCHANGED <<enable_constant_cache_, is_constant_, const_runs, calls,
                   scratchpad, execd, first_fail, ran_after_fail, ret,
                   tl_cache, ctor_calls, binders, prev_failed, c_data, out,
                   outs, kernel_gen, tl_gen>>

\* a get() that returns as soon as a future is installed for the key
cached_value_get_unblocked_early(cache) == cache.installed

\* cached_value.get() returns only once the promise behind the shared future
\* has been fulfilled
cached_value_get_unblocked(cache) == cache.ready

\* a grantor over memory that is not the cached buffer
c_grantor_unbound(cache) == NoBuffer

\* memory_planner_.internal_persistent_grantor(c_buffer->data<char>()) with
\* c_buffer = cached_value.get(): the persistent memories point into the
\* buffer the cache entry holds
c_grantor_from_cache(cache) == cache.buf

\* cached_value.get(): blocks until the promise of the installing call is
\* fulfilled, then the persistent memories are bound to the cached buffer
BindFromCache(t) ==
    /\ pc[t] = "wait"
    /\ cached_value_get_unblocked(constant_cache)
    /\ res' = [res EXCEPT ![t].persistent =
                                 c_grantor_from_cache(constant_cache)]
    /\ pc' = [pc EXCEPT ![t] = "run"]
    /\ idx' = [idx EXCEPT ![t] = 1]
    /\ UNCHANGED <<enable_constant_cache_, is_constant_, constant_cache,
                   next_buffer, const_runs, calls, scratchpad, c_buffer, execd,
                   first_fail, ran_after_fail, ret, blocked, tl_cache,
                   ctor_calls, binders, prev_failed, c_data, out, outs,
                   kernel_gen, tl_gen, cache_gen>>

\* bookkeeping of one op execution: subgraph_->execs_[i]->execute(...);
\* the status st the op hands back is not inspected by execute_impl
ExecuteOp(t, k, st) ==
    /\ execd' = [execd EXCEPT ![t] = Append(@, k)]
    /\ ran_after_fail' = [ran_after_fail EXCEPT
                            ![t] = @ \/ first_fail[t] # "success"]
    /\ first_fail' = [first_fail EXCEPT
                        ![t] = IF @ = "success" THEN st ELSE @]

\* the op index the constant-fold loop executes at position i (0: skipped)
fold_selects(i) == IF is_constant_[i] THEN i ELSE 0

\* a main loop that stops one op short of the schedule
run_selects_short(i) == IF is_constant_[i] \/ i = NumOps THEN 0 ELSE i

\* the op index the main loop executes at position i (0: skipped)
run_selects(i) == IF is_constant_[i] THEN 0 ELSE i

\* one iteration of the constant-fold loop of the installing call
FoldStep(t) ==
    /\ pc[t] = "fold"
    /\ idx[t] <= NumOps
    /\ LET k == fold_selects(idx[t]) IN
       IF k = 0
          THEN UNCHANGED <<execd, first_fail, ran_after_fail, const_runs,
                           c_data>>
          ELSE /\ \E st \in OpStatuses : ExecuteOp(t, k, st)
               /\ const_runs' = [const_runs EXCEPT ![k] = @ + 1]
               \* the op writes its result through the persistent memories
               \* of the argument set
               /\ c_data' = c_data \cup {<<res[t].persistent, k>>}
    /\ idx' = [idx EXCEPT ![t] = @ + 1]
    /\ UNCHANGED <<enable_constant_cache_, is_constant_, constant_cache,
                   next_buffer, pc, calls, res, scratchpad, c_buffer, ret,
                   blocked, tl_cache, ctor_calls, binders, prev_failed, out,
                   outs, kernel_gen, tl_gen, cache_gen>>

\* a fold branch that ends without fulfilling its promise
c_promise_set_value_skipped(cache, buf) == cache

\* c_promise.set_value(c_buffer): the shared future of the cache entry
\* becomes ready and holds the buffer
c_promise_set_value(cache, buf) == [cache EXCEPT !.ready = TRUE, !.buf = buf]

\* c_promise.set_value(c_buffer) after the fold loop
Publish(t) ==
    /\ pc[t] = "fold"
    /\ idx[t] > NumOps
    /\ constant_cache' = c_promise_set_value(constant_cache, c_buffer[t])
    /\ pc' = [pc EXCEPT ![t] = "run"]
    /\ idx' = [idx EXCEPT ![t] = 1]
    /\ UNCHANGED <<enable_constant_cache_, is_constant_, next_buffer,
                   const_runs, calls, res, scratchpad, c_buffer, execd,
                   first_fail, ran_after_fail, ret, blocked, tl_cache,
                   ctor_calls, binders, prev_failed, c_data, out, outs,
                   kernel_gen, tl_gen, cache_gen>>

\* the folded constants a persistent buffer holds
constants_in(buf) == {k \in ExecOps : <<buf, k>> \in c_data}

\* one iteration of the main loop over the scheduled ops
RunStep(t) ==
    /\ pc[t] = "run"
    /\ idx[t] <= NumOps
    /\ LET k == run_selects(idx[t]) IN
       IF k = 0
          THEN UNCHANGED <<execd, first_fail, ran_after_fail, out>>
          ELSE /\ \E st \in OpStatuses : ExecuteOp(t, k, st)
               \* the op computes from the call's inputs and from the
               \* constants its persistent memories point to
               /\ out' = [out EXCEPT ![t] =
                            Append(@, <<k, constants_in(res[t].persistent)>>)]
    /\ idx' = [idx EXCEPT ![t] = @ + 1]
    /\ UNCHANGED <<enable_constant_cache_, is_constant_, constant_cache,
                   next_buffer, const_runs, pc, calls, res, scratchpad,
                   c_buffer, ret, blocked, tl_cache, ctor_calls, binders,
                   prev_failed, c_data, outs, kernel_gen, tl_gen, cache_gen>>

\* the status execute_impl returns
execute_result(t) == "success"

\* a scratchpad that outlives the call that acquired it
scratchpad_kept(held) == held

\* temporary_scratchpad_t scratchpad is a local object of execute_impl: its
\* destructor runs when the call returns
scratchpad_scope_exit(held) == FALSE

\* return impl::status::success; the scratchpad goes out of scope
ExecuteReturn(t) ==
    /\ pc[t] = "run"
    /\ idx[t] > NumOps
    /\ ret' = [ret EXCEPT ![t] = execute_result(t)]
    /\ scratchpad' = [scratchpad EXCEPT ![t] = scratchpad_scope_exit(@)]
    /\ prev_failed' = [prev_failed EXCEPT
                         ![t] = @ \/ first_fail[t] # "success"]
    /\ calls' = [calls EXCEPT ![t] = @ + 1]
    /\ pc' = [pc EXCEPT ![t] = "idle"]
    /\ idx' = [idx EXCEPT ![t] = 0]
    /\ outs' = outs \cup {out[t]}
    /\ UNCHANGED <<enable_constant_cache_, is_constant_, constant_cache,
                   next_buffer, const_runs, res, c_buffer, execd, first_fail,
                   ran_after_fail, blocked, tl_cache, ctor_calls, binders,
                   c_data, out, kernel_gen, tl_gen, cache_gen>>

\* thread_local_cache_t::remove_if_exist(key): the entry of the key leaves
\* the storage of every thread
tl_remove_if_exist(cache) == [s \in Threads |-> 0]

\* a destructor that leaves the constant cache alone
dtor_keeps_constants(enabled) == FALSE

\* if (enable_constant_cache_) constant_cache.remove_if_exist(constant_key_)
dtor_removes_constants(enabled) == enabled

\* ~matmul_t / ~pooling_fwd_t, run while no thread is inside execute, and
\* the construction and compilation of the next kernel at the address the
\* destroyed one had
DestroyKernel ==
    /\ kernel_gen < MaxKernels
    /\ \A t \in Threads : pc[t] = "idle"
    /\ LET kept == tl_remove_if_exist(tl_cache)
           drop == dtor_removes_constants(enable_constant_cache_)
       IN /\ tl_cache' = kept
          /\ tl_gen' = [s \in Threads |-> IF kept[s] = 0 THEN 0 ELSE tl_gen[s]]
          /\ res' = [t \in Threads |->
                       IF kept[thread_local_slot(t)] = 0 THEN NoRes ELSE res[t]]
          /\ constant_cache' =
                IF drop THEN [installed |-> FALSE, ready |-> FALSE,
                              buf |-> NoBuffer]
                        ELSE constant_cache
          /\ cache_gen' = IF drop THEN 0 ELSE cache_gen
          /\ c_data' = IF drop THEN {} ELSE c_data
    /\ kernel_gen' = kernel_gen + 1
    /\ enable_constant_cache_' \in BOOLEAN
    /\ is_constant_' \in [ExecOps -> BOOLEAN]
    /\ (~enable_constant_cache_' => \A k \in ExecOps : ~is_constant_'[k])
    /\ const_runs' = [k \in ExecOps |-> 0]
    /\ calls' = [t \in Threads |-> 0]
    /\ execd' = [t \in Threads |-> <<>>]
    /\ first_fail' = [t \in Threads |-> "success"]
    /\ ran_after_fail' = [t \in Threads |-> FALSE]
    /\ ret' = [t \in Threads |-> "none"]
    /\ blocked' = [t \in Threads |-> FALSE]
    /\ ctor_calls' = [t \in Threads |-> 0]
    /\ binders' = [a \in Threads |-> {}]
    /\ prev_failed' = [t \in Threads |-> FALSE]
    /\ c_buffer' = [t \in Threads |-> NoBuffer]
    /\ out' = [t \in Threads |-> <<>>]
    /\ outs' = {}
    /\ UNCHANGED <<next_buffer, pc, idx, scratchpad>>

ExecNext ==
    \E t \in Threads :
        \/ ExecuteBegin(t)
        \/ ConstantCacheLookup(t)
        \/ BindFromCache(t)
        \/ FoldStep(t)
        \/ Publish(t)
        \/ RunStep(t)
        \/ ExecuteReturn(t)

(***************************************************************************)
(* Pass pipeline                                                           *)
(***************************************************************************)
\* the pass functions handed to BACKEND_DNNL_ADD_PASS
PassFns == {"infer_shape", "layout_propagation"}

\* the arguments compile_impl hands to reset_visualize_arg
VisualizeArgs == {<<TRUE, FALSE>>, <<TRUE, TRUE>>}

\* status values a pass, the visualizer and the validator return
PassStatuses == {"success", "invalid_shape", "unsupported"}

\* pass_pipeline_t(vis): an empty pipeline
PipeInit ==
    /\ passes_ = <<>>
    /\ names_ = <<>>
    /\ is_layout_sensitives_ = <<>>
    /\ is_memory_sensitives_ = <<>>
    /\ is_layout_sensitive_ = FALSE
    /\ is_memory_sensitive_ = FALSE
    /\ add_order = <<>>
    /\ pipe_pc = "build"
    /\ pipe_i = 0
    /\ pipe_ret = "none"
    /\ pipe_log = <<>>

\* reset_visualize_arg(is_layout_sensitive, is_memory_sensitive)
reset_visualize_arg(ls, ms) ==
    /\ pipe_pc = "build"
    /\ is_layout_sensitive_' = ls
    /\ is_memory_sensitive_' = ms
    /\ UNCHANGED <<passes_, names_, is_layout_sensitives_,
                   is_memory_sensitives_, add_order, pipe_pc, pipe_i, pipe_ret,
                   pipe_log>>

\* an insertion at the front of the vector
emplace_front(vec, x) == <<x>> \o vec

\* std::vector::emplace_back / push_back
emplace_back(vec, x) == Append(vec, x)

\* add_pass(apass, name)
add_pass(apass, name) ==
    /\ pipe_pc = "build"
    /\ Len(add_order) < MaxPasses
    /\ passes_' = emplace_back(passes_, apass)
    /\ names_' = Append(names_, name)
    /\ is_layout_sensitives_' = Append(is_layout_sensitives_,
                                       is_layout_sensitive_)
    /\ is_memory_sensitives_' = Append(is_memory_sensitives_,
                                       is_memory_sensitive_)
    /\ add_order' = Append(add_order, apass)
    /\ UNCHANGED <<is_layout_sensitive_, is_memory_sensitive_, pipe_pc,
                   pipe_i, pipe_ret, pipe_log>>

\* one invocation made by run, with the status it returned
PipeEvent(kind, i, fn, st) == [kind |-> kind, i |-> i, fn |-> fn, st |-> st]

\* run(sg) is entered: i = 0 of the loop (1 in the model's indexing)
RunEnter ==
    /\ pipe_pc = "build"
    /\ pipe_pc' = "pass"
    /\ pipe_i' = 1
    /\ UNCHANGED <<passes_, names_, is_layout_sensitives_,
                   is_memory_sensitives_, is_layout_sensitive_,
                   is_memory_sensitive_, add_order, pipe_ret, pipe_log>>

\* a run that does not look at the validator's status
validation_failed_ignored(st) == FALSE

\* if (ret != impl::status::success) { return ret; } after validator_.run
validation_failed(st) == st # "success"

\* if (ret != impl::status::success) { return ret; } after passes_[i](sg)
pass_failed(st) == st # "success"

\* ret = passes_[i](sg); if (ret != success) return ret;
RunPass ==
    /\ pipe_pc = "pass"
    /\ pipe_i <= Len(passes_)
    /\ \E st \in PassStatuses :
          /\ pipe_log' = Append(pipe_log,
                                PipeEvent("pass", pipe_i, passes_[pipe_i], st))
          /\ IF pass_failed(st)
                THEN /\ pipe_ret' = st
                     /\ pipe_pc' = "done"
                ELSE /\ pipe_ret' = pipe_ret
                     /\ pipe_pc' = "visualize"
    /\ UNCHANGED <<passes_, names_, is_layout_sensitives_,
                   is_memory_sensitives_, is_layout_sensitive_,
                   is_memory_sensitive_, add_order, pipe_i>>

\* visualizer_.run(sg, names_[i], ...): its status is not inspected
RunVisualize ==
    /\ pipe_pc = "visualize"
    /\ \E st \in PassStatuses :
          pipe_log' = Append(pipe_log,
                             PipeEvent("visualize", pipe_i, names_[pipe_i], st))
    /\ pipe_pc' = "validate"
    /\ UNCHANGED <<passes_, names_, is_layout_sensitives_,
                   is_memory_sensitives_, is_layout_sensitive_,
                   is_memory_sensitive_, add_order, pipe_i, pipe_ret>>

\* ret = validator_.run(sg); if (ret != success) return ret; i++
RunValidate ==
    /\ pipe_pc = "validate"
    /\ \E st \in PassStatuses :
          /\ pipe_log' = Append(pipe_log,
                                PipeEvent("validate", pipe_i, "validator", st))
          /\ IF validation_failed(st)
                THEN /\ pipe_ret' = st
                     /\ pipe_pc' = "done"
                     /\ pipe_i' = pipe_i
                ELSE /\ pipe_ret' = pipe_ret
                     /\ pipe_pc' = "pass"
                     /\ pipe_i' = pipe_i + 1
    /\ UNCHANGED <<passes_, names_, is_layout_sensitives_,
                   is_memory_sensitives_, is_layout_sensitive_,
                   is_memory_sensitive_, add_order>>

\* the loop has run off the end: return impl::status::success
RunReturn ==
    /\ pipe_pc = "pass"
    /\ pipe_i > Len(passes_)
    /\ pipe_ret' = "success"
    /\ pipe_pc' = "done"
    /\ UNCHANGED <<passes_, names_, is_layout_sensitives_,
                   is_memory_sensitives_, is_layout_sensitive_,
                   is_memory_sensitive_, add_order, pipe_i, pipe_log>>

PipeNext ==
    \/ \E a \in VisualizeArgs : reset_visualize_arg(a[1], a[2])
    \/ \E f \in PassFns : add_pass(f, f)
    \/ RunEnter
    \/ RunPass
    \/ RunVisualize
    \/ RunValidate
    \/ RunReturn

(***************************************************************************)
(* Partitioner                                                             *)
(***************************************************************************)
\* The graph: op g has the one output value g; the values above NumGraphOps
\* have no producer.  Ops are numbered in a topological order.
GOps == 1..NumGraphOps
GValues == 1..(NumGraphOps + NumGraphInputs)

\* value_t::has_producer / value_t::get_producer (0: no producer)
has_producer(v) == v <= NumGraphOps
get_producer(v) == IF has_producer(v) THEN v ELSE 0

\* op_t::get_input_value(j), j < num_inputs, as a set
OpInputs(op) == {v \in GValues : op \in g_consumers[v]}
\* op_t::get_output_value(j), j < num_outputs, as a set
OpOutputs(op) == {op}

\* logical_tensor_t: layout type, ndims, dims and strides
LT(layout, dims, strides) ==
    [layout_type |-> layout, ndims |-> Len(dims), dims |-> dims,
     strides |-> strides]

DenseLT == LT("strided", <<2, 3>>, <<3, 1>>)
OpaqueLT == LT("opaque", <<2, 3>>, <<0, 0>>)

\* the value a dimension of unknown size holds
UNKNOWN_DIM == -1

\* a strided logical tensor given with strides whose outermost dimension is
\* of unknown size
UnknownDimLT == LT("strided", <<UNKNOWN_DIM, 3>>, <<3, 1>>)

\* the logical tensors the values of the graph carry
PartLTs == {DenseLT, OpaqueLT, UnknownDimLT}

\* the comparator of the std::sort in check_logical_tensor_validity
StrideLess(lt, i, j) ==
    IF lt.strides[i] = lt.strides[j]
       THEN lt.dims[i] < lt.dims[j]
       ELSE lt.strides[i] < lt.strides[j]

\* indices 1..ndims sorted by that comparator
SortedIndices(lt) ==
    CHOOSE p \in [1..lt.ndims -> 1..lt.ndims] :
        /\ \A i, j \in 1..lt.ndims : i # j => p[i] # p[j]
        /\ \A i, j \in 1..lt.ndims : i < j => ~StrideLess(lt, p[j], p[i])

\* check_logical_tensor_validity(lt)
check_logical_tensor_validity(lt) ==
    IF lt.layout_type # "strided" THEN FALSE
    ELSE IF lt.ndims <= 0 THEN FALSE
    ELSE LET indices == SortedIndices(lt) IN
         IF lt.strides[indices[1]] # 1 THEN FALSE
         ELSE \A i \in 2..lt.ndims :
                 lt.strides[indices[i]]
                    = lt.strides[indices[i - 1]] * lt.dims[indices[i - 1]]

\* check_inputs_outputs_validity(inputs, outputs)
check_inputs_outputs_validity(inputs, outputs) ==
    /\ \A v \in inputs : check_logical_tensor_validity(g_lt[v])
    /\ \A v \in outputs : check_logical_tensor_validity(g_lt[v])

\* the graph handed to the partitioner, before any pattern is applied
PartInit ==
    /\ g_consumers \in [GValues -> SUBSET GOps]
    /\ \A v \in GValues : \A c \in g_consumers[v] : c > get_producer(v)
    /\ \A op \in GOps : Cardinality(OpInputs(op)) <= MaxInputs
    /\ g_lt \in [GValues -> PartLTs]
    /\ Cardinality({v \in GValues : g_lt[v] # DenseLT}) <= MaxOpaque
    /\ g_partition = [op \in GOps |-> 0]
    /\ partition_impls_ = <<>>
    /\ fusion_ops = <<>>
    /\ pattern_no = 1
    /\ part_pc = "match"
    /\ visited = {}
    /\ pairs_i = 0

\* the partitioner at rest, for the specifications of other components
PartIdle ==
    /\ g_consumers = [v \in GValues |-> {}]
    /\ g_lt = [v \in GValues |-> DenseLT]
    /\ g_partition = [op \in GOps |-> 0]
    /\ partition_impls_ = <<>>
    /\ fusion_ops = <<>>
    /\ pattern_no = 1
    /\ part_pc = "done"
    /\ visited = {}
    /\ pairs_i = 0

\* ops a and b are joined by a value one produces and the other consumes
Adjacent(a, b) == a \in g_consumers[b] \/ b \in g_consumers[a]

\* the ops of S form one connected sub-graph
Connected(S) ==
    \A A \in SUBSET S :
        (A # {} /\ A # S) => \E a \in A, b \in S \ A : Adjacent(a, b)

\* ops that a match of the list matched or a partition already holds
Claimed(matched) ==
    {op \in GOps : g_partition[op] # 0}
        \cup UNION {matched[k] : k \in 1..Len(matched)}

\* impl::utils::pm::match_pattern(cur_op, pgraph, candidate_fusion): the
\* candidate is a connected set of ops around cur_op none of which is already
\* held by another match or partition
match_pattern(cur_op, candidate_fusion, matched) ==
    /\ cur_op \in candidate_fusion
    /\ Connected(candidate_fusion)
    /\ candidate_fusion \cap Claimed(matched) = {}

\* what candidate_fusion can hold when match_pattern returns: ops collected
\* around cur_op, or nothing
Candidates(cur_op) == {{}} \cup {S \in SUBSET GOps : cur_op \in S}

\* a visitor that keeps the candidate whatever match_pattern returned
match_failed_ignored(matched) == FALSE

\* if (!match_pattern(cur_op, pgraph, candidate_fusion)) return success;
match_failed(matched) == ~matched

\* the visitor of pattern_utils_t::match applied to cur_op: the match list
\* after the visit
MatchVisit(cur_op, candidate_fusion, matched) ==
    IF match_failed(match_pattern(cur_op, candidate_fusion, matched))
       THEN matched
       ELSE Append(matched, candidate_fusion)

\* one visit of the traversal in pattern_utils_t::match; topo_order_visit
\* hands the ops to the visitor in a topological order, producers first
MatchStep(cur_op) ==
    /\ part_pc = "match"
    /\ cur_op \in GOps \ visited
    /\ \A op \in GOps \ visited : cur_op <= op
    /\ visited' = visited \cup {cur_op}
    /\ \E candidate_fusion \in Candidates(cur_op) :
          fusion_ops' = MatchVisit(cur_op, candidate_fusion, fusion_ops)
    /\ UNCHANGED <<g_consumers, g_lt, g_partition, partition_impls_,
                   pattern_no, part_pc, pairs_i>>

\* match has visited every op: set_partitions is entered
MatchReturn ==
    /\ part_pc = "match"
    /\ visited = GOps
    /\ part_pc' = "set_partitions"
    /\ pairs_i' = 1
    /\ UNCHANGED <<g_consumers, g_lt, g_partition, partition_impls_,
                   fusion_ops, pattern_no, visited>>

\* a test that forgets the values without producer
is_partition_input_no_graph_inputs(in_value, visit) ==
    has_producer(in_value) /\ get_producer(in_value) \notin visit

\* !in_value->has_producer() || !visit.count(&in_value->get_producer())
is_partition_input(in_value, visit) ==
    ~has_producer(in_value) \/ get_producer(in_value) \notin visit

\* a test that forgets the values without consumer
is_partition_output_no_dangling(out_value, visit) ==
    \E consumer \in g_consumers[out_value] : consumer \notin visit

\* is_output: no consumer, or some consumer outside the pattern
is_partition_output(out_value, visit) ==
    \/ g_consumers[out_value] = {}
    \/ \E consumer \in g_consumers[out_value] : consumer \notin visit

\* the values handed to pimpl->add_input_tensor for the match pairs
PartitionInputs(pairs) ==
    {in_value \in UNION {OpInputs(cur_op) : cur_op \in pairs} :
        is_partition_input(in_value, pairs)}

\* the values handed to pimpl->add_output_tensor for the match pairs
PartitionOutputs(pairs) ==
    {out_value \in UNION {OpOutputs(cur_op) : cur_op \in pairs} :
        is_partition_output(out_value, pairs)}

\* a set_partitions that adds every match
partition_rejected_never(inputs, outputs) == FALSE

\* if (!check_inputs_outputs_validity(pimpl->get_inputs(),
\*             pimpl->get_outputs())) { continue; }
partition_rejected(inputs, outputs) ==
    ~check_inputs_outputs_validity(inputs, outputs)

\* one iteration of the loop over fusion_ops in set_partitions
SetPartitionsStep ==
    /\ part_pc = "set_partitions"
    /\ pairs_i <= Len(fusion_ops)
    /\ LET pairs == fusion_ops[pairs_i]
           pimpl == [ops |-> pairs,
                     inputs |-> PartitionInputs(pairs),
                     outputs |-> PartitionOutputs(pairs)]
       IN IF partition_rejected(pimpl.inputs, pimpl.outputs)
             THEN UNCHANGED <<g_partition, partition_impls_>>
             ELSE /\ partition_impls_' = Append(partition_impls_, pimpl)
                  /\ g_partition' =
                        [op \in GOps |->
                            IF op \in pairs THEN Len(partition_impls_) + 1
                                            ELSE g_partition[op]]
    /\ pairs_i' = pairs_i + 1
    /\ UNCHANGED <<g_consumers, g_lt, fusion_ops, pattern_no, part_pc,
                   visited>>

\* set_partitions returns; the next pattern, if any, is matched into an
\* empty match list
SetPartitionsReturn ==
    /\ part_pc = "set_partitions"
    /\ pairs_i > Len(fusion_ops)
    /\ visited' = {}
    /\ pairs_i' = 0
    /\ IF pattern_no < NumPatterns
          THEN /\ pattern_no' = pattern_no + 1
               /\ part_pc' = "match"
               /\ fusion_ops' = <<>>
          ELSE /\ pattern_no' = pattern_no
               /\ part_pc' = "done"
               /\ fusion_ops' = fusion_ops
    /\ UNCHANGED <<g_consumers, g_lt, g_partition, partition_impls_>>

PartNext ==
    \/ \E cur_op \in GOps : MatchStep(cur_op)
    \/ MatchReturn
    \/ SetPartitionsStep
    \/ SetPartitionsReturn

(***************************************************************************)
(* Memory planner                                                          *)
(***************************************************************************)
\* the buffer requests of the partition being planned
Bufs == DOMAIN buf_size

\* byte sizes of the buffer requests
BufSizes == {50, 100}

\* liveness intervals <<first-use tick, last-use tick>> of the requests, in
\* ticks of a six-op schedule
Lifetimes == {<<0, 2>>, <<3, 5>>, <<0, 5>>, <<2, 3>>, <<2, 2>>}

FirstUse(b) == buf_life[b][1]
LastUse(b) == buf_life[b][2]

\* b is declared to reuse the location of a: the op at the last-use tick of a
\* consumes a and produces b in place
InplacePair(a, b) == inplace_of[b] = a

\* the buffer requests of a compiled partition, before planning
PlanInit ==
    /\ \E n \in 1..NumBufs :
          /\ buf_size \in [1..n -> BufSizes]
          /\ buf_life \in [1..n -> Lifetimes]
          /\ inplace_of \in [1..n -> 0..n]
    /\ \A b \in Bufs :
          inplace_of[b] # 0 =>
              /\ inplace_of[b] < b
              /\ buf_size[inplace_of[b]] = buf_size[b]
              /\ FirstUse(inplace_of[b]) < LastUse(inplace_of[b])
              /\ LastUse(inplace_of[b]) = FirstUse(b)
    /\ \A b, c \in Bufs :
          (b # c /\ inplace_of[b] # 0) => inplace_of[b] # inplace_of[c]
    /\ buf_offset = [b \in Bufs |-> -1]
    /\ planned = {}
    /\ total_temporary = 0

\* the planner at rest, for the specifications of other components
PlanIdle ==
    /\ buf_size = [b \in 1..NumBufs |-> 50]
    /\ buf_life = [b \in 1..NumBufs |-> <<0, 5>>]
    /\ inplace_of = [b \in 1..NumBufs |-> 0]
    /\ buf_offset = [b \in 1..NumBufs |-> -1]
    /\ planned = {}
    /\ total_temporary = 0

\* the requests are taken in the order of their first-use tick
PlannedBefore(a, b) ==
    \/ FirstUse(a) < FirstUse(b)
    \/ FirstUse(a) = FirstUse(b) /\ a < b

\* a free list that releases a buffer already at its last-use tick
StillLiveUntilLastUse(x, b) == LastUse(x) > FirstUse(b)

\* a placed buffer x still occupies its range when b is first used
StillLive(x, b) == LastUse(x) >= FirstUse(b)

\* the byte ranges [o, o + n) and [p, p + m) share a byte
RangesOverlap(o, n, p, m) == o < p + m /\ p < o + n

\* offset o is free for b
Fits(o, b) ==
    \A x \in planned :
        StillLive(x, b) =>
            ~RangesOverlap(o, buf_size[b], buf_offset[x], buf_size[x])

\* a planner that never reuses an offset: every request is placed at the end
\* of the arena
BumpAllocate(b) == total_temporary

\* greedy first fit: the lowest free offset, among the arena start and the
\* ends of the placed ranges
FirstFit(b) ==
    LET candidates == {0} \cup {buf_offset[x] + buf_size[x] : x \in planned}
        free == {o \in candidates : Fits(o, b)}
    IN CHOOSE o \in free : \A p \in free : o <= p

\* the offset given to b: in-place pairs are excluded from planning and
\* reuse the location of their source
assign_offset(b) ==
    IF inplace_of[b] # 0 THEN buf_offset[inplace_of[b]] ELSE FirstFit(b)

Max(a, b) == IF a >= b THEN a ELSE b

\* the planner places the next request
PlanStep(b) ==
    /\ b \in Bufs \ planned
    /\ \A c \in Bufs \ planned : c = b \/ PlannedBefore(b, c)
    /\ LET o == assign_offset(b) IN
       /\ buf_offset' = [buf_offset EXCEPT ![b] = o]
       /\ total_temporary' = Max(total_temporary, o + buf_size[b])
    /\ planned' = planned \cup {b}
    /\ UNCHANGED <<buf_size, buf_life, inplace_of>>

PlanNext == \E b \in 1..NumBufs : PlanStep(b)

(***************************************************************************)
(* Graph construction and shape inference                                  *)
(***************************************************************************)
OpIds == 1..MaxOpId

\* The values: op i writes value i; value MaxOpId + 1 is written by no op.
\* Op 1 reads the outer value, op 2 reads value 1, every later op reads the
\* values of its two predecessors.
OuterValue == MaxOpId + 1
AllValues == 1..OuterValue

op_input_values(id) ==
    IF id = 1 THEN {OuterValue}
    ELSE IF id = 2 THEN {1}
    ELSE {id - 2, id - 1}

\* op kinds: one with a schema in op_schema_registry_t and one without
OpKinds == {"MatMul", "Unregistered"}

\* states of the attributes of an op: a required attribute left unset, set
\* to a value of the schema, set to a value the schema rejects, or filled
\* in by set_default_attribute
OpAttrs == {"unset", "good", "bad"}

\* a null op pointer
NullOp == [id |-> 0, kind |-> "none", attr |-> "none"]

\* the ops a caller hands to add_op
OpArgs ==
    {NullOp}
        \cup [id : OpIds, kind : {"MatMul"}, attr : OpAttrs]
        \cup [id : OpIds, kind : {"Unregistered"}, attr : {"unset"}]

NoSchema == "nullptr"

\* op_schema_registry_t::get_op_schema(kind)
get_op_schema(kind) == IF kind = "MatMul" THEN "MatMulSchema" ELSE NoSchema

\* op_schema_t::set_default_attribute(op): fills in the attributes left unset
set_default_attribute(op) ==
    IF op.attr = "unset" THEN [op EXCEPT !.attr = "default"] ELSE op

\* op_schema_t::verify(op): every required attribute is set and admissible
verify(op) == op.attr \in {"good", "default"}

\* dnnl_graph_graph(): an empty graph; the shapes the values carry are those
\* the caller gave them.  The ops handed in are all there is, or they are
\* ops of a larger graph whose other ops stay consumers of their values.
GraphInit ==
    /\ ops_ = <<>>
    /\ outer_linked \in BOOLEAN
    /\ val_shape \in [AllValues -> {"known", "unknown"}]
    /\ g_fn = "none"
    /\ l_n_in = NullOp
    /\ l_n_out = NullOp
    /\ g_ret = "none"
    /\ infer_pc = "idle"
    /\ infer_visited = {}

\* the graph at rest, for the specifications of other components
GraphIdle ==
    /\ GraphInit
    /\ ~outer_linked
    /\ val_shape = [v \in AllValues |-> "known"]

\* ids of the ops in a list
IdsOf(ops) == {ops[j].id : j \in 1..Len(ops)}

\* an add_op that never finds the id in the graph
id_absent_always(ops, l_n) == TRUE

\* std::none_of(ops_.begin(), ops_.end(), op->get_id() == l_n->get_id())
id_absent(ops, l_n) == \A j \in 1..Len(ops) : ops[j].id # l_n.id

\* an add_op that adds whatever verify says
verify_failed_ignored(opm, tmp_ln) == FALSE

\* if (!opm->verify(&tmp_ln)) return impl::status::invalid_op;
verify_failed(opm, tmp_ln) == ~verify(tmp_ln)

\* graph_t::add_op(l_n): the status returned, the op list and the caller's op
\* after the call
add_op(ops, l_n) ==
    IF l_n = NullOp
       THEN [status |-> "invalid_op", ops |-> ops, l_n |-> l_n]
    ELSE IF id_absent(ops, l_n)
       THEN LET opm == get_op_schema(l_n.kind)
                tmp_ln == IF opm # NoSchema THEN set_default_attribute(l_n)
                                            ELSE l_n
            IN IF opm # NoSchema /\ verify_failed(opm, tmp_ln)
                  THEN [status |-> "invalid_op", ops |-> ops, l_n |-> l_n]
                  ELSE [status |-> "success", ops |-> Append(ops, tmp_ln),
                        l_n |-> l_n]
    ELSE [status |-> "success", ops |-> ops, l_n |-> l_n]

\* a call of add_op
AddOp(l_n) ==
    /\ infer_pc = "idle"
    /\ LET r == add_op(ops_, l_n) IN
       /\ ops_' = r.ops
       /\ g_ret' = r.status
       /\ l_n_out' = r.l_n
    /\ l_n_in' = l_n
    /\ g_fn' = "add_op"
    /\ UNCHANGED <<val_shape, infer_pc, infer_visited, outer_linked>>

\* graph_t::get_input_values(): the input values of the ops of the graph
\* that have no producer or whose producer is not an op of the graph
get_input_values(ops) ==
    {v \in AllValues :
        /\ \E j \in 1..Len(ops) : v \in op_input_values(ops[j].id)
        /\ v \notin IdsOf(ops)}

\* a check that takes every shape for known
is_shape_unknown_never(v) == FALSE

\* logical_tensor_wrapper_t(lt).is_shape_unknown()
is_shape_unknown(v) == val_shape[v] = "unknown"

\* status values op_schema_t::shape_infer returns
ShapeInferStatuses == {"success", "invalid_shape", "unsupported"}

\* the visitor infer_shape hands to topo_order_visit, called on op when
\* shape_infer returns si: the status it returns
infer_visitor(op, si) ==
    IF get_op_schema(op.kind) = NoSchema THEN "invalid_op"
    ELSE IF si # "success" THEN "invalid_shape"
    ELSE "success"

\* op->num_output_consumers(i), summed over the outputs: the ops linked to
\* the output value of the op as consumers, in the graph or outside it
output_consumers(ops, id) ==
    {j \in OpIds : /\ id \in op_input_values(j)
                   /\ (outer_linked \/ j \in IdsOf(ops))}

\* graph_t::get_output_ops(): the ops with num_consumers == 0
get_output_ops(ops) ==
    {id \in IdsOf(ops) : output_consumers(ops, id) = {}}

\* the ops topo_order_visit reaches from the ops it is given: these, and the
\* ops of the graph that produce an input of an op it reaches
RECURSIVE reached_from(_, _)
reached_from(ops, from) ==
    LET more == from \cup {id \in IdsOf(ops) :
                              \E c \in from : id \in op_input_values(c)}
    IN IF more = from THEN from ELSE reached_from(ops, more)

\* topo_order_visit calls the visitor on an op it reaches, after the ops
\* producing its inputs
ReadyToVisit(op) ==
    /\ op.id \in reached_from(ops_, get_output_ops(ops_))
    /\ op.id \notin infer_visited
    /\ \A v \in op_input_values(op.id) :
          v \in IdsOf(ops_) => v \in infer_visited

\* infer_shape up to the check of the shapes of the graph inputs
InferBegin ==
    /\ infer_pc = "idle"
    /\ g_fn' = "infer_shape"
    /\ infer_visited' = {}
    /\ IF \E v \in get_input_values(ops_) : is_shape_unknown(v)
          THEN /\ g_ret' = "invalid_shape"
               /\ infer_pc' = "idle"
          ELSE /\ g_ret' = "none"
               /\ infer_pc' = "visit"
    /\ UNCHANGED <<ops_, val_shape, l_n_in, l_n_out, outer_linked>>

\* one call of the visitor; topo_order_visit returns the first status that is
\* not success
InferVisit(op, si) ==
    /\ infer_pc = "visit"
    /\ ReadyToVisit(op)
    /\ infer_visited' = infer_visited \cup {op.id}
    /\ LET st == infer_visitor(op, si) IN
       IF st = "success"
          THEN /\ val_shape' = [val_shape EXCEPT ![op.id] = "known"]
               /\ UNCHANGED <<g_ret, infer_pc>>
          ELSE /\ g_ret' = st
               /\ infer_pc' = "idle"
               /\ UNCHANGED val_shape
    /\ UNCHANGED <<ops_, g_fn, l_n_in, l_n_out, outer_linked>>

\* topo_order_visit has visited every op it reaches
InferReturn ==
    /\ infer_pc = "visit"
    /\ infer_visited = reached_from(ops_, get_output_ops(ops_))
    /\ g_ret' = "success"
    /\ infer_pc' = "idle"
    /\ UNCHANGED <<ops_, val_shape, g_fn, l_n_in, l_n_out, infer_visited,
                   outer_linked>>

GraphNext ==
    \/ \E l_n \in OpArgs : AddOp(l_n)
    \/ InferBegin
    \/ \E j \in 1..Len(ops_) : \E si \in ShapeInferStatuses :
          InferVisit(ops_[j], si)
    \/ InferReturn

(***************************************************************************)
(* Kernel compilation                                                      *)
(***************************************************************************)
\* a kernel on which compile has not been called
CompileInit ==
    /\ compile_pc = "start"
    /\ bind_ret = "none"
    /\ resource_ctor_ = FALSE
    /\ inplace_pairs_ = FALSE
    /\ given_lts = "as_given"
    /\ compile_ret = "none"

\* BACKEND_DNNL_CHECK(statement): return the status unless it is success
check_failed(st) == st # "success"

\* a compile that prepares the in-place pairs whatever compile_impl returned
compile_impl_failed_ignored(ret_impl) == FALSE

\* if (ret != impl::status::success) return ret;
compile_impl_failed(ret_impl) == ret_impl # "success"

\* kernel_base_t::compile once compile_impl has returned ret_impl: the status
\* it returns and whether prepare_inplace_pairs_impl has run
compile(ret_impl) ==
    IF compile_impl_failed(ret_impl)
       THEN [status |-> ret_impl, inplace |-> inplace_pairs_]
       ELSE [status |-> "success", inplace |-> TRUE]

\* compile_impl up to the construction of the pipeline:
\* BACKEND_DNNL_CHECK(set_given_inputs_outputs(subgraph_, inputs, outputs));
\* on failure compile_impl returns and compile ends
CompileBegin ==
    /\ compile_pc = "start"
    /\ \E st \in PassStatuses :
          /\ bind_ret' = st
          /\ IF check_failed(st)
                THEN /\ compile_ret' = compile(st).status
                     /\ inplace_pairs_' = compile(st).inplace
                     /\ compile_pc' = "returned"
                ELSE /\ UNCHANGED <<compile_ret, inplace_pairs_>>
                     /\ compile_pc' = "pipeline"
    /\ UNCHANGED <<resource_ctor_, given_lts>>

\* the passes are added and run
CompilePipeline ==
    /\ compile_pc = "pipeline"
    /\ PipeNext
    /\ UNCHANGED compileVars

\* compile_impl after pipeline.run: BACKEND_DNNL_CHECK of its status, then
\* the caller's logical tensors are filled from ins_/outs_ and resource_ctor_
\* is installed; compile ends with the status of compile_impl
CompileFinish ==
    /\ compile_pc = "pipeline"
    /\ pipe_pc = "done"
    /\ LET ret_impl == IF check_failed(pipe_ret) THEN pipe_ret ELSE "success"
       IN /\ IF check_failed(pipe_ret)
                THEN UNCHANGED <<resource_ctor_, given_lts>>
                ELSE /\ given_lts' = "filled"
                     /\ resource_ctor_' = TRUE
          /\ compile_ret' = compile(ret_impl).status
          /\ inplace_pairs_' = compile(ret_impl).inplace
    /\ compile_pc' = "returned"
    /\ UNCHANGED <<bind_ret, pipeVars>>

CompileNext ==
    \/ CompileBegin /\ UNCHANGED pipeVars
    \/ CompilePipeline
    \/ CompileFinish

(***************************************************************************)
(* Backend: pass registry and get_partitions                               *)
(***************************************************************************)
\* const float priority_ths = 20.f
priority_ths == 20

\* priorities the registered passes carry
Priorities == {8, 19, 20, 21}

\* the ops of the graph a pattern can match
Matches == (SUBSET (1..NumClaimOps)) \ {{}}

\* the backend before register_passes
BkInit ==
    /\ registry_passes_ = <<>>
    /\ disable_dnnl_bkd = FALSE
    /\ enable_large_partition = TRUE
    /\ filtered_registry = <<>>
    /\ bk_pc = "register"
    /\ bk_i = 0
    /\ bk_log = <<>>
    /\ op_owner = [o \in 1..NumClaimOps |-> 0]

\* pass_registry_t::register_pass(pass): the pass joins the end of passes_
register_pass(registry, pass) == Append(registry, pass)

\* register_passes: one pattern is registered with its priority
RegisterPass ==
    /\ bk_pc = "register"
    /\ Len(registry_passes_) < MaxRegistered
    /\ \E pr \in Priorities, m \in Matches :
          registry_passes_' = register_pass(registry_passes_,
              [name |-> Len(registry_passes_) + 1, priority |-> pr,
               match |-> m])
    /\ UNCHANGED <<disable_dnnl_bkd, enable_large_partition,
                   filtered_registry, bk_pc, bk_i, bk_log, op_owner>>

\* a registry that is left in registration order
sort_passes_skipped(registry) == registry

\* pass_registry_t::sort_passes: passes with high priority come before
\* passes with low priority; passes of equal priority keep their order
sort_passes(registry) ==
    LET n == Len(registry)
        before(j, i) ==
            \/ registry[j].priority > registry[i].priority
            \/ registry[j].priority = registry[i].priority /\ j < i
        rank(i) == Cardinality({j \in 1..n : before(j, i)}) + 1
    IN [k \in 1..n |-> registry[CHOOSE i \in 1..n : rank(i) = k]]

\* register_passes ends with sort_passes
SortPasses ==
    /\ bk_pc = "register"
    /\ registry_passes_ # <<>>
    /\ registry_passes_' = sort_passes(registry_passes_)
    /\ bk_pc' = "ready"
    /\ UNCHANGED <<disable_dnnl_bkd, enable_large_partition,
                   filtered_registry, bk_i, bk_log, op_owner>>

\* get_partitions reads the two environment toggles; a disabled backend
\* returns success at once
GetPartitionsBegin ==
    /\ bk_pc = "ready"
    /\ disable_dnnl_bkd' \in BOOLEAN
    /\ enable_large_partition' \in BOOLEAN
    /\ bk_pc' = IF disable_dnnl_bkd' THEN "done" ELSE "filter"
    /\ bk_i' = 1
    /\ UNCHANGED <<registry_passes_, filtered_registry, bk_log, op_owner>>

\* a threshold test that lets the threshold priority itself through
is_large_partition_above(pass) == pass.priority > priority_ths

\* is_large_partition = pass->get_priority() >= priority_ths
is_large_partition(pass) == pass.priority >= priority_ths

\* one iteration of the loop over get_pass_registry().get_passes()
FilterStep ==
    /\ bk_pc = "filter"
    /\ bk_i <= Len(registry_passes_)
    /\ LET pass == registry_passes_[bk_i] IN
       filtered_registry' =
           IF ~enable_large_partition /\ is_large_partition(pass)
              THEN filtered_registry
              ELSE register_pass(filtered_registry, pass)
    /\ bk_i' = bk_i + 1
    /\ UNCHANGED <<registry_passes_, disable_dnnl_bkd, enable_large_partition,
                   bk_pc, bk_log, op_owner>>

\* pass_manager_t pm(filtered_registry); pm.run_passes(agraph, "", policy)
RunPassesBegin ==
    /\ bk_pc = "filter"
    /\ bk_i > Len(registry_passes_)
    /\ bk_pc' = "run"
    /\ bk_i' = 1
    /\ UNCHANGED <<registry_passes_, disable_dnnl_bkd, enable_large_partition,
                   filtered_registry, bk_log, op_owner>>

\* run_passes runs the next pass of the registry: its pattern claims the
\* ops it matches unless one of them belongs to a partition already
RunPassesStep ==
    /\ bk_pc = "run"
    /\ bk_i <= Len(filtered_registry)
    /\ LET pass == filtered_registry[bk_i] IN
       /\ bk_log' = Append(bk_log, pass)
       /\ op_owner' =
             IF \A o \in pass.match : op_owner[o] = 0
                THEN [o \in 1..NumClaimOps |->
                         IF o \in pass.match THEN pass.name ELSE op_owner[o]]
                ELSE op_owner
    /\ bk_i' = bk_i + 1
    /\ UNCHANGED <<registry_passes_, disable_dnnl_bkd, enable_large_partition,
                   filtered_registry, bk_pc>>

\* return status::success
GetPartitionsReturn ==
    /\ bk_pc = "run"
    /\ bk_i > Len(filtered_registry)
    /\ bk_pc' = "done"
    /\ UNCHANGED <<registry_passes_, disable_dnnl_bkd, enable_large_partition,
                   filtered_registry, bk_i, bk_log, op_owner>>

BkNext ==
    \/ RegisterPass
    \/ SortPasses
    \/ GetPartitionsBegin
    \/ FilterStep
    \/ RunPassesBegin
    \/ RunPassesStep
    \/ GetPartitionsReturn

(***************************************************************************)
(* compile_impl: the pass lists of the kernels and their run               *)
(***************************************************************************)
Compiles == 1..NumCompiles

\* a compile_impl that adds constant propagation whatever the setting
constant_propagation_always(enabled, name) == <<name>>

\* if (enable_constant_cache_) { BACKEND_DNNL_ADD_PASS(pipeline, name); }
constant_propagation_if(enabled, name) == IF enabled THEN <<name>> ELSE <<>>

\* the passes matmul_t<quantized>::compile_impl adds, in order
matmul_passes(q, enabled) ==
    <<"lower_down">>
    \o (IF q THEN <<"split_quant_dequant", "fuse_typecast_to_matmul",
                    "fuse_typecast_to_add", "fuse_post_typecast_to_matmul",
                    "fuse_typecast_to_mul_scales">>
             ELSE <<>>)
    \o <<"fuse_bias_add", "check_with_bias", "fuse_mul_sigmoid_to_swish",
         "infer_shape", "binary_canonicalization", "infer_shape",
         "binary_broadcast_swap", "infer_type">>
    \o (IF q THEN <<"fuse_to_int8_matmul", "folding_mul_scales",
                    "fuse_output_scales">>
             ELSE <<>>)
    \o <<"fuse_post_ops">>
    \o (IF q THEN <<"fuse_zero_points", "fuse_mul_scales_add_zps">> ELSE <<>>)
    \o <<"insert_u8_to_s8_for_matmul", "infer_shape",
         "insert_transpose_for_matmul", "infer_shape",
         "insert_reshape_for_ndx2d_matmul", "infer_shape",
         "insert_expand_and_squeeze_for_matmul", "infer_shape", "infer_type">>
    \o constant_propagation_if(enabled, "constant_propagation<false>")
    \o <<"layout_propagation", "fuse_adjacent_reorders">>
    \o constant_propagation_if(enabled, "constant_propagation<true>")
    \o <<"memory_plan", "compile_ops">>

\* the passes pooling_fwd_t<quantized>::compile_impl adds, in order
pooling_fwd_passes(q, enabled) ==
    <<"lower_down", "infer_shape", "binary_canonicalization", "infer_shape",
      "infer_type">>
    \o (IF q THEN <<"remove_unnecessary_quant_dequant", "split_quant_dequant",
                    "fuse_to_int8_pool", "combine_binary_post_op_scales",
                    "remove_quant_data_with_no_effect", "infer_shape",
                    "replace_quant_data_with_binary_post_op",
                    "fuse_mul_scales_add_zps", "infer_shape", "infer_type">>
             ELSE <<>>)
    \o <<"fuse_post_ops", "pool_fwd_canonicalization", "infer_shape",
         "infer_type">>
    \o constant_propagation_if(enabled, "constant_propagation<false>")
    \o <<"layout_propagation">>
    \o constant_propagation_if(enabled, "constant_propagation<true>")
    \o <<"memory_plan", "compile_ops">>

\* a backward pooling kernel that marks constants
pooling_bwd_passes_marking_constants ==
    <<"lower_down", "insert_maxpool_forward", "pool_fwd_canonicalization",
      "pool_bwd_canonicalization", "infer_shape", "infer_type",
      "layout_propagation", "constant_propagation<true>", "memory_plan",
      "compile_ops">>

\* the passes pooling_bwd_t::compile_impl adds, in order
pooling_bwd_passes ==
    <<"lower_down", "insert_maxpool_forward", "pool_fwd_canonicalization",
      "pool_bwd_canonicalization", "infer_shape", "infer_type",
      "layout_propagation", "memory_plan", "compile_ops">>

\* the ops a subgraph is built from: whether the op is fed by constant
\* inputs only, and whether its output layout differs from what its
\* consumer takes
SgOps == [kind : {"op"}, const_in : BOOLEAN, reorder : BOOLEAN]

\* layout_propagation: a reorder is inserted behind every op whose output
\* layout its consumer does not take
RECURSIVE insert_reorders(_)
insert_reorders(ops) ==
    IF ops = <<>> THEN <<>>
    ELSE (IF Head(ops).reorder
             THEN <<[Head(ops) EXCEPT !.reorder = FALSE],
                    [kind |-> "reorder", const_in |-> TRUE, reorder |-> FALSE]>>
             ELSE <<Head(ops)>>)
         \o insert_reorders(Tail(ops))

\* a pass whose result depends on how many other compilations have finished
pass_apply_shared(name, sg) ==
    IF name = "memory_plan"
       THEN [sg EXCEPT !.offsets =
                [i \in 1..Len(sg.ops) |->
                    Cardinality({c \in Compiles : kb_pc[c] = "done"})]]
       ELSE sg

\* what a pass makes of the subgraph: a function of the subgraph alone.
\* constant_propagation marks the ops all of whose producers are constant,
\* layout_propagation inserts reorders (the new ops are unmarked),
\* memory_plan gives the outputs of successive non-constant ops alternating
\* offsets in the temporary arena and the constant ones offsets in the
\* persistent arena, compile_ops makes one executable per op, infer_shape
\* fails on a subgraph of unknown shape
pass_apply(name, sg) ==
    LET n == Len(sg.ops) IN
    CASE name \in {"constant_propagation<false>", "constant_propagation<true>"}
           -> [sg EXCEPT !.is_constant =
                  [i \in 1..n |-> \A j \in 1..i : sg.ops[j].const_in]]
      [] name = "layout_propagation"
           -> LET ops == insert_reorders(sg.ops) IN
              [sg EXCEPT !.ops = ops,
                         !.is_constant = [i \in 1..Len(ops) |-> FALSE]]
      [] name = "memory_plan"
           -> [sg EXCEPT !.offsets =
                  [i \in 1..n |->
                      IF sg.is_constant[i]
                         THEN Cardinality({j \in 1..(i - 1) : sg.is_constant[j]})
                         ELSE Cardinality({j \in 1..(i - 1) :
                                              ~sg.is_constant[j]}) % 2]]
      [] name = "compile_ops"
           -> [sg EXCEPT !.execs = [i \in 1..n |-> sg.ops[i].kind]]
      [] name = "infer_shape" /\ sg.shape_unknown
           -> [sg EXCEPT !.status = "invalid_shape"]
      [] OTHER -> sg

\* data types of the first input and the first output given to compile
DataTypes == {"u8", "s8"}

\* a compile_impl without the check of the data types
data_types_unchecked(in_dt, out_dt) == TRUE

\* pooling_fwd_t::compile_impl: inputs[0].data_type != outputs[0].data_type
\* returns unsupported
data_types_compatible(in_dt, out_dt) == in_dt = out_dt

\* two kernels of one class, constructed under the same setting of the
\* constant cache, each given a partition of the same structure and the
\* same logical tensors; subgraph_ is not built yet
KbInit ==
    /\ kb_kernel \in {"matmul", "pooling_fwd", "pooling_bwd"}
    /\ quantized \in BOOLEAN
    /\ (kb_kernel = "pooling_bwd" => ~quantized)
    /\ kb_exec = [c \in Compiles |->
                     [calls |-> 0, cached |-> FALSE, ran |-> <<>>]]
    /\ kb_pc = [c \in Compiles |-> "add"]
    /\ kb_added = [c \in Compiles |-> <<>>]
    /\ kb_ran = [c \in Compiles |-> <<>>]
    /\ \E n \in 1..MaxSgOps, ops \in [1..MaxSgOps -> SgOps],
          unknown \in BOOLEAN :
          kb_sg = [c \in Compiles |->
                     [ops |-> SubSeq(ops, 1, n),
                      is_constant |-> [i \in 1..n |-> FALSE],
                      offsets |-> <<>>, execs |-> <<>>,
                      shape_unknown |-> unknown, status |-> "success",
                      built |-> FALSE]]
    /\ kb_ret = [c \in Compiles |-> "none"]
    /\ kb_data_types \in DataTypes \X DataTypes

\* the compile component at rest, for the specifications of other components
KbIdle ==
    /\ kb_kernel = "matmul"
    /\ quantized = FALSE
    /\ kb_pc = [c \in Compiles |-> "add"]
    /\ kb_added = [c \in Compiles |-> <<>>]
    /\ kb_ran = [c \in Compiles |-> <<>>]
    /\ kb_sg = [c \in Compiles |-> <<>>]
    /\ kb_ret = [c \in Compiles |-> "none"]
    /\ kb_data_types = <<"u8", "u8">>
    /\ kb_exec = [c \in Compiles |->
                     [calls |-> 0, cached |-> FALSE, ran |-> <<>>]]

\* compile_impl up to pipeline.run: the check of the data types that
\* pooling_fwd_t makes first, then subgraph_ = std::make_shared<subgraph_t>
\* and the BACKEND_DNNL_ADD_PASS statements
AddPasses(c) ==
    /\ kb_pc[c] = "add"
    /\ IF /\ kb_kernel = "pooling_fwd"
          /\ ~data_types_compatible(kb_data_types[1], kb_data_types[2])
          THEN /\ kb_ret' = [kb_ret EXCEPT ![c] = "unsupported"]
               /\ kb_pc' = [kb_pc EXCEPT ![c] = "done"]
               /\ UNCHANGED <<kb_added, kb_sg>>
          ELSE /\ kb_added' = [kb_added EXCEPT ![c] =
                     CASE kb_kernel = "matmul"
                            -> matmul_passes(quantized, enable_constant_cache_)
                       [] kb_kernel = "pooling_fwd"
                            -> pooling_fwd_passes(quantized,
                                                  enable_constant_cache_)
                       [] OTHER -> pooling_bwd_passes]
               /\ kb_sg' = [kb_sg EXCEPT ![c].built = TRUE]
               /\ kb_pc' = [kb_pc EXCEPT ![c] = "run"]
               /\ UNCHANGED kb_ret
    /\ UNCHANGED <<kb_kernel, quantized, kb_ran, kb_data_types, kb_exec>>

\* one iteration of pass_pipeline_t::run: the next added pass runs on the
\* subgraph; a status other than success ends the run
KbRunPass(c) ==
    /\ kb_pc[c] = "run"
    /\ Len(kb_ran[c]) < Len(kb_added[c])
    /\ LET name == kb_added[c][Len(kb_ran[c]) + 1]
           sg == pass_apply(name, kb_sg[c])
       IN /\ kb_ran' = [kb_ran EXCEPT ![c] = Append(@, name)]
          /\ kb_sg' = [kb_sg EXCEPT ![c] = sg]
          /\ IF sg.status # "success"
                THEN /\ kb_ret' = [kb_ret EXCEPT ![c] = sg.status]
                     /\ kb_pc' = [kb_pc EXCEPT ![c] = "done"]
                ELSE UNCHANGED <<kb_ret, kb_pc>>
    /\ UNCHANGED <<kb_kernel, quantized, kb_added, kb_data_types, kb_exec>>

\* return impl::status::success after the last pass
KbRunReturn(c) ==
    /\ kb_pc[c] = "run"
    /\ Len(kb_ran[c]) = Len(kb_added[c])
    /\ kb_ret' = [kb_ret EXCEPT ![c] = "success"]
    /\ kb_pc' = [kb_pc EXCEPT ![c] = "done"]
    /\ UNCHANGED <<kb_kernel, quantized, kb_added, kb_ran, kb_sg,
                   kb_data_types, kb_exec>>

\* the positions of the schedule whose is_constant_ bit is b, in order
positions_where(is_constant, b) ==
    SelectSeq([i \in 1..Len(is_constant) |-> i],
              LAMBDA i : is_constant[i] = b)

\* execute_impl of the compiled kernel, the ops it executes: matmul_t and
\* pooling_fwd_t with the constant cache enabled run the constant ops when
\* their buffer is not in the cache yet; every kernel then runs the loop
\* "if (subgraph_->is_constant_[i]) continue; execs_[i]->execute(...)"
KbExecute(c) ==
    /\ kb_pc[c] = "done"
    /\ kb_ret[c] = "success"
    /\ kb_exec[c].calls < MaxCalls
    /\ LET uses_cache == enable_constant_cache_ /\ kb_kernel # "pooling_bwd"
           folded == IF uses_cache /\ ~kb_exec[c].cached
                        THEN positions_where(kb_sg[c].is_constant, TRUE)
                        ELSE <<>>
       IN kb_exec' = [kb_exec EXCEPT ![c] =
              [calls |-> @.calls + 1,
               cached |-> @.cached \/ uses_cache,
               ran |-> folded \o positions_where(kb_sg[c].is_constant, FALSE)]]
    /\ UNCHANGED <<kb_kernel, quantized, kb_pc, kb_added, kb_ran, kb_sg,
                   kb_ret, kb_data_types>>

KbNext ==
    \E c \in Compiles :
        \/ AddPasses(c)
        \/ KbRunPass(c)
        \/ KbRunReturn(c)
        \/ KbExecute(c)

(***************************************************************************)
(* Pattern graphs and the matching of an op chain                          *)
(***************************************************************************)
\* op kinds of the candidate graph
ChainKinds == {"MatMul", "Divide", "Multiply", "Add", "SoftMax"}

\* an alternation that lists Divide only
fscore_scale_divide_only ==
    [kinds |-> {"Divide"}, allow_external_output |-> FALSE]

\* pgraph->append_alternation({Divide, Multiply}, {in_edge(0, matmul_qk, 0)},
\* "fscore_scale")
fscore_scale ==
    [kinds |-> {"Divide", "Multiply"}, allow_external_output |-> FALSE]

\* a softmax node without the allow_external_output mark
softmax_internal_only ==
    [kinds |-> {"SoftMax"}, allow_external_output |-> FALSE]

\* softmax = pgraph->append_op(SoftMax, {in_edge(0, fscore_add, 0)});
\* softmax->allow_external_output(0)
softmax_external_output ==
    [kinds |-> {"SoftMax"}, allow_external_output |-> TRUE]

\* fp32_mha_pattern_alternative: each node takes output 0 of the one before
fp32_mha_pattern_alternative ==
    LET node(kind) == [kinds |-> {kind}, allow_external_output |-> FALSE] IN
    <<node("MatMul"), fscore_scale, node("Add"), node("SoftMax"),
      node("MatMul"), node("StaticTranspose"), node("Reorder")>>

\* fp32_mha_forward_pattern: each node takes output 0 of the one before
fp32_mha_forward_pattern ==
    LET node(kind) == [kinds |-> {kind}, allow_external_output |-> FALSE] IN
    <<node("MatMul"), fscore_scale, node("Add"), softmax_external_output,
      [kinds |-> {"Multiply"}, allow_external_output |-> TRUE],
      node("MatMul"), node("StaticTranspose"), node("StaticReshape")>>

\* the chain patterns matched here: the leading MatMul -> Div|Mul -> Add ->
\* SoftMax of the inference pattern and the leading MatMul -> Div|Mul -> Add
\* -> SoftMax -> Mul of the training forward pattern
ChainPatterns ==
    {SubSeq(fp32_mha_pattern_alternative, 1, 4),
     SubSeq(fp32_mha_forward_pattern, 1, 5)}

\* impl::utils::pm::match_pattern(cur_op, pgraph, candidate_fusion) for a
\* chain pattern: the first node is bound to cur_op and each further node to
\* the consumer of the op before; a node takes an op whose kind is one of
\* its kinds; an op bound to a node that feeds another node must not have a
\* consumer outside the match unless the node allows external output
match_chain(cur_op, pgraph) ==
    LET n == Len(pgraph)
        bound(k) == cur_op + k - 1
        ok == /\ bound(n) <= NumChainOps
              /\ \A k \in 1..n : pm_kind[bound(k)] \in pgraph[k].kinds
              /\ \A k \in 1..(n - 1) :
                    bound(k) \in pm_ext => pgraph[k].allow_external_output
    IN [matched |-> ok,
        candidate_fusion |-> IF ok THEN [k \in 1..n |-> bound(k)] ELSE <<>>]

\* a chain of ops, at most one of them with a consumer outside the chain,
\* and the pattern it is matched against
PmInit ==
    /\ pm_kind \in [1..NumChainOps -> ChainKinds]
    /\ pm_ext \in {{}} \cup {{o} : o \in 1..NumChainOps}
    /\ pm_pgraph \in ChainPatterns
    /\ pm_cur = 1
    /\ pm_fusion = <<>>

\* the matcher at rest, for the specifications of other components
PmIdle ==
    /\ pm_kind = [o \in 1..NumChainOps |-> "MatMul"]
    /\ pm_ext = {}
    /\ pm_pgraph = <<>>
    /\ pm_cur = 1
    /\ pm_fusion = <<>>

\* the visitor of pattern_utils_t::match on the next op: a successful match
\* is collected, a failed one is dropped
ChainMatchVisit ==
    /\ pm_cur <= NumChainOps
    /\ LET m == match_chain(pm_cur, pm_pgraph) IN
       pm_fusion' = IF m.matched THEN Append(pm_fusion, m.candidate_fusion)
                                 ELSE pm_fusion
    /\ pm_cur' = pm_cur + 1
    /\ UNCHANGED <<pm_kind, pm_ext, pm_pgraph>>

(***************************************************************************)
(* Copy construction of a graph (interface/graph.hpp).  A graph holds      *)
(* shared pointers: ops and values are objects of a heap, addressed by      *)
(* their index, so that two graphs may or may not refer to one object.      *)
(* Graph 1 is the original, graph 2 its copy.                               *)
(***************************************************************************)
AttrValues == {0, 1}

CopyInit ==
    /\ op_objs = <<>>
    /\ value_objs = <<>>
    /\ n_partition_objs = 0
    /\ cp_ops_ = << <<>> >>
    /\ cp_partition_impls_ = << <<>> >>
    /\ cp_last = [kind |-> "none", g |-> 0, before |-> <<>>]

\* what a graph holds, read through its pointers: per op its attribute and
\* the logical tensor of its output value
GraphView(g) ==
    [i \in 1..Len(cp_ops_[g]) |->
        [attr |-> op_objs[cp_ops_[g][i]].attr,
         lt   |-> value_objs[op_objs[cp_ops_[g][i]].out]]]

OtherGraphView(g) == IF Len(cp_ops_) = 2 THEN GraphView(3 - g) ELSE <<>>

\* add_op: ops_.push_back(std::make_shared<op_t>(tmp_ln)), a new op object
\* with its own output value
CpAddOp(g, a) ==
    /\ g \in 1..Len(cp_ops_)
    /\ Len(op_objs) < MaxObjs
    /\ op_objs' = Append(op_objs, [attr |-> a, out |-> Len(value_objs) + 1])
    /\ value_objs' = Append(value_objs, 0)
    /\ cp_ops_' = [cp_ops_ EXCEPT ![g] = Append(@, Len(op_objs) + 1)]
    /\ cp_last' = [kind |-> "add_op", g |-> g, before |-> OtherGraphView(g)]
    /\ UNCHANGED <<n_partition_objs, cp_partition_impls_>>

\* add_partition: partition_impls_.push_back(pimpl)
add_partition(g) ==
    /\ g \in 1..Len(cp_ops_)
    /\ n_partition_objs < MaxPartitionObjs
    /\ n_partition_objs' = n_partition_objs + 1
    /\ cp_partition_impls_' =
           [cp_partition_impls_ EXCEPT ![g] = Append(@, n_partition_objs + 1)]
    /\ cp_last' = [kind |-> "add_partition", g |-> g,
                   before |-> OtherGraphView(g)]
    /\ UNCHANGED <<op_objs, value_objs, cp_ops_>>

\* a copy that shares the op objects of the original
shallow_copy(ops) == ops

\* deep_copy: the pointers to the clones of the ops, which are allocated at
\* the end of the heap in the order of ops
deep_copy(ops) == [i \in 1..Len(ops) |-> Len(op_objs) + i]

\* dnnl_graph_graph(const dnnl_graph_graph &other): ops_(deep_copy(other.ops_)),
\* partition_impls_(other.partition_impls_).  The clones of the ops and of
\* their values are allocated here.
CopyGraph ==
    /\ Len(cp_ops_) = 1
    /\ Len(op_objs) + Len(cp_ops_[1]) <= MaxObjs
    /\ op_objs' = op_objs \o
           [i \in 1..Len(cp_ops_[1]) |->
               [attr |-> op_objs[cp_ops_[1][i]].attr,
                out  |-> Len(value_objs) + i]]
    /\ value_objs' = value_objs \o
           [i \in 1..Len(cp_ops_[1]) |-> value_objs[op_objs[cp_ops_[1][i]].out]]
    /\ cp_ops_' = Append(cp_ops_, deep_copy(cp_ops_[1]))
    /\ cp_partition_impls_' =
           Append(cp_partition_impls_, cp_partition_impls_[1])
    /\ cp_last' = [kind |-> "copy", g |-> 2, before |-> GraphView(1)]
    /\ UNCHANGED n_partition_objs

\* an op of graph g is mutated through the graph's pointer to it
SetAttr(g, i, a) ==
    /\ g \in 1..Len(cp_ops_)
    /\ i \in 1..Len(cp_ops_[g])
    /\ op_objs' = [op_objs EXCEPT ![cp_ops_[g][i]].attr = a]
    /\ cp_last' = [kind |-> "mutate", g |-> g, before |-> OtherGraphView(g)]
    /\ UNCHANGED <<value_objs, n_partition_objs, cp_ops_, cp_partition_impls_>>

\* op->get_output_value(i)->set_logical_tensor(...) on an op of graph g
set_logical_tensor(g, i, l) ==
    /\ g \in 1..Len(cp_ops_)
    /\ i \in 1..Len(cp_ops_[g])
    /\ value_objs' = [value_objs EXCEPT ![op_objs[cp_ops_[g][i]].out] = l]
    /\ cp_last' = [kind |-> "mutate", g |-> g, before |-> OtherGraphView(g)]
    /\ UNCHANGED <<op_objs, n_partition_objs, cp_ops_, cp_partition_impls_>>

(***************************************************************************)
(* The layout id manager (backend/dnnl/dnnl_backend.hpp).  A descriptor is  *)
(* an any_t object: md is what is_mem_desc_equal compares, obj tells apart  *)
(* the objects the callers hand in.                                         *)
(***************************************************************************)
MemDescs == [md : 1..NumDescs, obj : Threads]

\* dnnl_layout_id_manager_t::is_mem_desc_equal
is_mem_desc_equal(mem_desc1, mem_desc2) == mem_desc1.md = mem_desc2.md

LmInit ==
    /\ mem_descs_data_ = <<>>
    /\ mem_descs_m_ = 0
    /\ lm_pc = [t \in Threads |-> "idle"]
    /\ lm_mem_desc = [t \in Threads |-> [md |-> 1, obj |-> t]]
    /\ lm_pos = [t \in Threads |-> 0]
    /\ lm_calls = [t \in Threads |-> 0]
    /\ lm_issued = {}

\* a set_mem_desc that does not take the mutex
lock_guard_skipped(m) == TRUE

\* std::lock_guard<std::mutex> lock(mem_descs_.m_) goes on when no thread
\* holds the mutex
lock_guard(m) == m = 0

\* set_mem_desc is entered and the mutex taken
SetMemDescLock(t, mem_desc) ==
    /\ lm_pc[t] = "idle"
    /\ lm_calls[t] < MaxSetCalls
    /\ lock_guard(mem_descs_m_)
    /\ mem_descs_m_' = t
    /\ lm_mem_desc' = [lm_mem_desc EXCEPT ![t] = mem_desc]
    /\ lm_calls' = [lm_calls EXCEPT ![t] = @ + 1]
    /\ lm_pc' = [lm_pc EXCEPT ![t] = "find"]
    /\ UNCHANGED <<mem_descs_data_, lm_pos, lm_issued>>

\* std::find_if over data_: the distance of the first equal entry from
\* begin(), or the size of data_ for end()
find_if(data, mem_desc) ==
    IF \E i \in 1..Len(data) : is_mem_desc_equal(data[i], mem_desc)
       THEN (CHOOSE i \in 1..Len(data) :
                /\ is_mem_desc_equal(data[i], mem_desc)
                /\ \A j \in 1..(i - 1) : ~is_mem_desc_equal(data[j], mem_desc))
            - 1
       ELSE Len(data)

SetMemDescFind(t) ==
    /\ lm_pc[t] = "find"
    /\ lm_pos' = [lm_pos EXCEPT ![t] = find_if(mem_descs_data_, lm_mem_desc[t])]
    /\ lm_pc' = [lm_pc EXCEPT ![t] = "return"]
    /\ UNCHANGED <<mem_descs_data_, mem_descs_m_, lm_mem_desc, lm_calls,
                   lm_issued>>

\* a table whose new entries go to the front
mem_descs_emplace_front(data, mem_desc) == <<mem_desc>> \o data

\* mem_descs_.data_.emplace_back(mem_desc)
mem_descs_emplace_back(data, mem_desc) == Append(data, mem_desc)

\* the rest of set_mem_desc: the layout id is the position found, or the
\* descriptor is appended and the id is size() - 1; the lock guard releases
\* the mutex at the return
SetMemDescReturn(t) ==
    /\ lm_pc[t] = "return"
    /\ LET data == IF lm_pos[t] # Len(mem_descs_data_)
                      THEN mem_descs_data_
                      ELSE mem_descs_emplace_back(mem_descs_data_, lm_mem_desc[t])
           layout_id == IF lm_pos[t] # Len(mem_descs_data_)
                           THEN lm_pos[t]
                           ELSE Len(data) - 1
       IN /\ mem_descs_data_' = data
          /\ lm_issued' = lm_issued \cup {<<lm_mem_desc[t], layout_id>>}
    /\ mem_descs_m_' = IF mem_descs_m_ = t THEN 0 ELSE mem_descs_m_
    /\ lm_pc' = [lm_pc EXCEPT ![t] = "idle"]
    /\ UNCHANGED <<lm_mem_desc, lm_pos, lm_calls>>

\* get_mem_desc: nullopt (the empty sequence here) for an id that is not an
\* index of the table
get_mem_desc(layout_id) ==
    IF layout_id >= Len(mem_descs_data_)
       THEN <<>>
       ELSE mem_descs_data_[layout_id + 1]

(***************************************************************************)
(* The buffer scheduler (graph_compiler/core/src/compiler/ir/transform/     *)
(* buffer_schedule.hpp).  A function is a sequence of statements; the       *)
(* statement at position k has tick k and reads at most one local tensor    *)
(* and writes at most one.                                                  *)
(***************************************************************************)
Tensors == 1..NumTensors

\* rd, wr: the tensor read and the tensor written, 0 for none
Stmts == {st \in [rd : 0..NumTensors, wr : 0..NumTensors] :
             st.rd # st.wr}

\* creation tick and deletion tick of a tensor defined in the body of the
\* function, and of one defined in a scope nested in it
Scopes == {<<0, MaxTick + 1>>, <<1, MaxTick>>}

\* step 2 of the pass: first-access tick, last-read tick, write ticks,
\* creation tick and deletion tick of each tensor
collect_ticks(prog, scope) ==
    [t \in Tensors |->
        LET reads == {k \in 1..Len(prog) : prog[k].rd = t}
            writes == {k \in 1..Len(prog) : prog[k].wr = t}
        IN [first_access |-> CHOOSE k \in reads \cup writes :
                                \A j \in reads \cup writes : k <= j,
            last_read |-> CHOOSE k \in reads : \A j \in reads : j <= k,
            writes |-> writes,
            creation_tick |-> scope[t][1],
            deletion_tick |-> scope[t][2]]]

BsInit ==
    /\ bs_prog = <<>>
    /\ bs_ticks = <<>>
    /\ bs_buf = <<>>
    /\ bs_cur = 0

\* the function handed to the pass: every local tensor is read at some
\* tick, is accessed inside its scope only, and the tensors are numbered in
\* creation order
CollectTicks ==
    /\ bs_cur = 0
    /\ \E prog \in [1..MaxTick -> Stmts], scope \in [Tensors -> Scopes] :
          /\ \A t \in Tensors : \E k \in 1..MaxTick : prog[k].rd = t
          /\ \A t \in Tensors, k \in 1..MaxTick :
                (prog[k].rd = t \/ prog[k].wr = t) =>
                    scope[t][1] < k /\ k < scope[t][2]
          /\ \A t \in Tensors \ {1} : scope[t - 1][1] <= scope[t][1]
          /\ bs_prog' = prog
          /\ bs_ticks' = collect_ticks(prog, scope)
    /\ bs_buf' = [t \in Tensors |-> t]
    /\ bs_cur' = 1

\* a scheduler that lets cur start at the tick of the candidate's last read
can_reuse_at_last_read(cur, candidate) ==
    /\ cur.first_access >= candidate.last_read
    /\ cur.first_access >= candidate.creation_tick
    /\ cur.deletion_tick <= candidate.deletion_tick
    /\ \A w \in candidate.writes :
          ~(cur.first_access <= w /\ w <= cur.last_read)

\* step 4, conditions 1 and 2: cur.FAT > candidate.LRT && cur.FAT >=
\* candidate.creation_tick && cur.deletion_tick <= candidate.deletion_tick,
\* and no write to the candidate happens between [cur.FAT, cur.LRT]
can_reuse(cur, candidate) ==
    /\ cur.first_access > candidate.last_read
    /\ cur.first_access >= candidate.creation_tick
    /\ cur.deletion_tick <= candidate.deletion_tick
    /\ \A w \in candidate.writes :
          ~(cur.first_access <= w /\ w <= cur.last_read)

\* the candidate after cur was replaced with it: the accesses of cur are
\* accesses of the candidate from now on
replace_with(cur, candidate) ==
    [candidate EXCEPT
        !.first_access = IF cur.first_access < @ THEN cur.first_access ELSE @,
        !.last_read = IF cur.last_read > @ THEN cur.last_read ELSE @,
        !.writes = @ \cup cur.writes]

\* step 4 for one tensor: "cur" is replaced with a candidate that has a
\* buffer of its own and meets the conditions, if there is one
ScheduleTensor ==
    /\ bs_cur \in Tensors
    /\ LET found == {c \in Tensors \ {bs_cur} :
                        /\ bs_buf[c] = c
                        /\ can_reuse(bs_ticks[bs_cur], bs_ticks[c])}
       IN IF found = {}
             THEN UNCHANGED <<bs_buf, bs_ticks>>
             ELSE \E candidate \in found :
                     /\ bs_buf' = [bs_buf EXCEPT ![bs_cur] = candidate]
                     /\ bs_ticks' = [bs_ticks EXCEPT ![candidate] =
                            replace_with(bs_ticks[bs_cur], @)]
    /\ bs_cur' = bs_cur + 1
    /\ UNCHANGED bs_prog

(***************************************************************************)
(* c10::FunctionSchema::is_mutable, as test/cpp/jit/test_schema_info.cpp    *)
(* exercises it.  A schema is parsed from the declarations of its           *)
(* arguments; an argument index counts from 0.                              *)
(***************************************************************************)
\* the types an argument is declared with; (a) is an alias annotation and
\* (a!) an alias annotation that marks the argument as written
ArgTypes == {"Tensor(a!)", "Tensor(a)", "Tensor", "Scalar"}

\* the names the arguments are declared with, by position
ArgNames == <<"self", "other", "alpha", "out">>

\* aten::sub_.Tensor(Tensor(a!) self, Tensor other, *, Scalar alpha=1)
TestSchema ==
    <<[type |-> "Tensor(a!)", name |-> "self"],
      [type |-> "Tensor", name |-> "other"],
      [type |-> "Scalar", name |-> "alpha"]>>

\* the argument without alias annotation
NoAliasInfo == [present |-> FALSE, is_write |-> FALSE]

\* parseSchema: the alias_info() of an argument declared with a type
parse_alias_info(type) ==
    CASE type = "Tensor(a!)" -> [present |-> TRUE, is_write |-> TRUE]
      [] type = "Tensor(a)"  -> [present |-> TRUE, is_write |-> FALSE]
      [] OTHER               -> NoAliasInfo

FsInit ==
    /\ fs_decl = <<>>
    /\ fs_arguments = <<>>
    /\ fs_call = [by |-> "none", arg |-> 0, result |-> "none"]

\* torch::jit::parseSchema
parseSchema(decl) ==
    /\ fs_decl = <<>>
    /\ fs_decl' = decl
    /\ fs_arguments' = [i \in 1..Len(decl) |->
                           [name |-> decl[i].name,
                            alias_info |-> parse_alias_info(decl[i].type)]]
    /\ UNCHANGED fs_call

\* an is_mutable that reports every argument with an alias annotation
has_alias_info(alias_info) == alias_info.present

\* aliasInfo != nullptr && aliasInfo->isWrite()
is_write(alias_info) == alias_info.present /\ alias_info.is_write

\* an is_mutable that takes any index
index_unchecked(index, size) == TRUE

\* the check that the index is a position of arguments()
index_in_range(index, size) == index < size

\* is_mutable(size_t index): "c10::Error" for the exception, else the
\* value returned
is_mutable(arguments, index) ==
    IF ~index_in_range(index, Len(arguments))
       THEN "c10::Error"
       ELSE IF /\ index < Len(arguments)
               /\ is_write(arguments[index + 1].alias_info)
               THEN "true"
               ELSE "false"

\* argumentIndexWithName: the index of the first argument of that name,
\* -1 for c10::nullopt
argumentIndexWithName(arguments, name) ==
    IF \E i \in 1..Len(arguments) : arguments[i].name = name
       THEN (CHOOSE i \in 1..Len(arguments) :
                /\ arguments[i].name = name
                /\ \A j \in 1..(i - 1) : arguments[j].name # name) - 1
       ELSE -1

\* is_mutable(c10::string_view name)
is_mutable_name(arguments, name) ==
    IF argumentIndexWithName(arguments, name) = -1
       THEN "c10::Error"
       ELSE is_mutable(arguments, argumentIndexWithName(arguments, name))

\* schema.is_mutable(index) is called
IsMutableByIndex(index) ==
    /\ fs_decl # <<>>
    /\ fs_call' = [by |-> "index", arg |-> index,
                   result |-> is_mutable(fs_arguments, index)]
    /\ UNCHANGED <<fs_decl, fs_arguments>>

\* schema.is_mutable(name) is called
IsMutableByName(name) ==
    /\ fs_decl # <<>>
    /\ fs_call' = [by |-> "name", arg |-> name,
                   result |-> is_mutable_name(fs_arguments, name)]
    /\ UNCHANGED <<fs_decl, fs_arguments>>

(***************************************************************************)
(* c10d::ReduceOp (torch/csrc/distributed/c10d/Types.hpp)                   *)
(***************************************************************************)
\* enum Kind
Kinds == {"SUM", "AVG", "PRODUCT", "MIN", "MAX", "BAND", "BOR", "BXOR",
          "PREMUL_SUM", "UNUSED"}

\* a shared_ptr<_SupplementBase>: 0 is the null pointer, the others point to
\* a supplement object
Supplements == 0..NumReduceOps

\* ReduceOp() {} with the member initializers: Kind op_ = SUM and an empty
\* supplement_
ReduceOpDefault == [op_ |-> "SUM", supplement_ |-> 0]

ReduceOpInit == reduce_ops = [r \in 1..NumReduceOps |-> ReduceOpDefault]

\* ReduceOp(Kind op): TORCH_INTERNAL_ASSERT(op_ != PREMUL_SUM) throws, and
\* no object is made, for PREMUL_SUM
ConstructFromKind(r, op) ==
    /\ op # "PREMUL_SUM"
    /\ reduce_ops' = [reduce_ops EXCEPT ![r] = [ReduceOpDefault EXCEPT !.op_ = op]]

\* ReduceOp(Kind op, std::shared_ptr<_SupplementBase> optional_supplement):
\* with a supplement only op_ is set; without one the assert throws unless
\* op is PREMUL_SUM, and op_ and supplement_ are set
ConstructWithSupplement(r, op, optional_supplement) ==
    IF optional_supplement # 0
       THEN reduce_ops' = [reduce_ops EXCEPT ![r] =
                              [ReduceOpDefault EXCEPT !.op_ = op]]
       ELSE /\ op = "PREMUL_SUM"
            /\ reduce_ops' = [reduce_ops EXCEPT ![r] =
                   [op_ |-> "PREMUL_SUM", supplement_ |-> optional_supplement]]

\* ReduceOp(const ReduceOp& other) and operator=: op_ and supplement_ of
\* other
CopyReduceOp(r, other) ==
    /\ r # other
    /\ reduce_ops' = [reduce_ops EXCEPT ![r] = reduce_ops[other]]

\* makeNCCLPreMulSum(factor): rop.op_ = PREMUL_SUM, rop.supplement_ =
\* std::make_shared<NCCLPreMulSumSupplement>(factor), a new supplement object
makeNCCLPreMulSum(r) ==
    reduce_ops' = [reduce_ops EXCEPT ![r] =
                      [op_ |-> "PREMUL_SUM", supplement_ |-> r]]

\* the components added last, at rest
LateInit == CopyInit /\ LmInit /\ BsInit /\ FsInit /\ ReduceOpInit

\* the components that came first, at rest
CoreIdle == ExecIdle /\ PipeInit /\ PartIdle /\ PlanIdle /\ GraphIdle
               /\ CompileInit /\ BkInit /\ KbIdle /\ PmIdle

(***************************************************************************)
(* Specifications                                                          *)
(***************************************************************************)
InitExec == ExecInit /\ PipeInit /\ PartIdle /\ PlanIdle /\ GraphIdle
               /\ CompileInit /\ BkInit /\ KbIdle /\ PmIdle /\ LateInit
NextExec == ExecNext /\ UNCHANGED <<pipeVars, partVars, planVars, graphVars,
                      compileVars, bkVars, kbVars, pmVars, lateVars>>
SpecExec == InitExec /\ [][NextExec]_vars

\* every thread inside an execute call keeps running: a call that started
\* goes on until it blocks or returns; no thread is obliged to start a call
ThreadProgress(t) ==
    /\ \/ ConstantCacheLookup(t)
       \/ BindFromCache(t)
       \/ FoldStep(t)
       \/ Publish(t)
       \/ RunStep(t)
       \/ ExecuteReturn(t)
    /\ UNCHANGED <<pipeVars, partVars, planVars, graphVars,
                      compileVars, bkVars, kbVars, pmVars, lateVars>>

FairExec == \A t \in Threads : WF_vars(ThreadProgress(t))
SpecExecFair == InitExec /\ [][NextExec]_vars /\ FairExec

\* kernels created, executed and destroyed at one address
NextLife == (ExecNext \/ DestroyKernel)
               /\ UNCHANGED <<pipeVars, partVars, planVars, graphVars,
                              compileVars, bkVars, kbVars, pmVars, lateVars>>
SpecLife == InitExec /\ [][NextLife]_vars

InitPipe == ExecIdle /\ PipeInit /\ PartIdle /\ PlanIdle /\ GraphIdle
               /\ CompileInit /\ BkInit /\ KbIdle /\ PmIdle /\ LateInit
NextPipe == PipeNext /\ UNCHANGED <<execVars, partVars, planVars, graphVars,
                      compileVars, bkVars, kbVars, pmVars, lateVars>>
SpecPipe == InitPipe /\ [][NextPipe]_vars

InitPart == ExecIdle /\ PipeInit /\ PartInit /\ PlanIdle /\ GraphIdle
               /\ CompileInit /\ BkInit /\ KbIdle /\ PmIdle /\ LateInit
NextPart == PartNext /\ UNCHANGED <<execVars, pipeVars, planVars, graphVars,
                      compileVars, bkVars, kbVars, pmVars, lateVars>>
SpecPart == InitPart /\ [][NextPart]_vars

InitPlan == ExecIdle /\ PipeInit /\ PartIdle /\ PlanInit /\ GraphIdle
               /\ CompileInit /\ BkInit /\ KbIdle /\ PmIdle /\ LateInit
NextPlan == PlanNext /\ UNCHANGED <<execVars, pipeVars, partVars, graphVars,
                      compileVars, bkVars, kbVars, pmVars, lateVars>>
SpecPlan == InitPlan /\ [][NextPlan]_vars

InitGraph == ExecIdle /\ PipeInit /\ PartIdle /\ PlanIdle /\ GraphInit
               /\ CompileInit /\ BkInit /\ KbIdle /\ PmIdle /\ LateInit
NextGraph == GraphNext /\ UNCHANGED <<execVars, pipeVars, partVars, planVars,
                      compileVars, bkVars, kbVars, pmVars, lateVars>>
SpecGraph == InitGraph /\ [][NextGraph]_vars

InitCompile == ExecIdle /\ PipeInit /\ PartIdle /\ PlanIdle /\ GraphIdle
                   /\ CompileInit /\ BkInit /\ KbIdle /\ PmIdle /\ LateInit
NextCompile == CompileNext /\ UNCHANGED <<execVars, partVars, planVars,
                                          graphVars, bkVars, kbVars, pmVars, lateVars>>
SpecCompile == InitCompile /\ [][NextCompile]_vars

InitBackend == ExecIdle /\ PipeInit /\ PartIdle /\ PlanIdle /\ GraphIdle
                   /\ CompileInit /\ BkInit /\ KbIdle /\ PmIdle /\ LateInit
NextBackend == BkNext /\ UNCHANGED <<execVars, pipeVars, partVars, planVars,
                                     graphVars, compileVars, kbVars, pmVars, lateVars>>
SpecBackend == InitBackend /\ [][NextBackend]_vars

\* the kernels before compile: no op is marked constant yet
InitBuild == ExecInit /\ (\A k \in ExecOps : ~is_constant_[k])
                 /\ PipeInit /\ PartIdle /\ PlanIdle /\ GraphIdle
                 /\ CompileInit /\ BkInit /\ KbInit /\ PmIdle /\ LateInit
NextBuild == KbNext /\ UNCHANGED <<execVars, pipeVars, partVars, planVars,
                                   graphVars, compileVars, bkVars, pmVars, lateVars>>
SpecBuild == InitBuild /\ [][NextBuild]_vars

InitMatch == ExecIdle /\ PipeInit /\ PartIdle /\ PlanIdle /\ GraphIdle
                 /\ CompileInit /\ BkInit /\ KbIdle /\ PmInit /\ LateInit
NextMatch == ChainMatchVisit
                /\ UNCHANGED <<execVars, pipeVars, partVars, planVars,
                               graphVars, compileVars, bkVars, kbVars, lateVars>>
SpecMatch == InitMatch /\ [][NextMatch]_vars

\* every component at rest: the specifications below choose their inputs
\* in their actions
InitLate == CoreIdle /\ LateInit

NextCopy ==
    /\ \/ \E g \in 1..2, a \in AttrValues : CpAddOp(g, a)
       \/ \E g \in 1..2 : add_partition(g)
       \/ CopyGraph
       \/ \E g \in 1..2, i \in 1..MaxObjs, a \in AttrValues : SetAttr(g, i, a)
       \/ \E g \in 1..2, i \in 1..MaxObjs, l \in AttrValues :
              set_logical_tensor(g, i, l)
    /\ UNCHANGED <<coreVars, lmVars, bsVars, fsVars, reduce_ops>>
SpecCopy == InitLate /\ [][NextCopy]_vars

NextLayout ==
    /\ \E t \in Threads :
          \/ \E mem_desc \in MemDescs :
                mem_desc.obj = t /\ SetMemDescLock(t, mem_desc)
          \/ SetMemDescFind(t)
          \/ SetMemDescReturn(t)
    /\ UNCHANGED <<coreVars, copyVars, bsVars, fsVars, reduce_ops>>
SpecLayout == InitLate /\ [][NextLayout]_vars

NextSched ==
    /\ \/ CollectTicks
       \/ ScheduleTensor
    /\ UNCHANGED <<coreVars, copyVars, lmVars, fsVars, reduce_ops>>
SpecSched == InitLate /\ [][NextSched]_vars

NextSchema ==
    /\ \/ \E n \in 1..MaxArgs, types \in [1..MaxArgs -> ArgTypes] :
             parseSchema([i \in 1..n |->
                             [type |-> types[i], name |-> ArgNames[i]]])
       \/ \E index \in 0..(MaxArgs + 1) : IsMutableByIndex(index)
       \/ \E name \in {ArgNames[i] : i \in 1..Len(ArgNames)}
                           \cup {"named_argument"} :
             IsMutableByName(name)
    /\ UNCHANGED <<coreVars, copyVars, lmVars, bsVars, reduce_ops>>
SpecSchema == InitLate /\ [][NextSchema]_vars

NextReduce ==
    /\ \E r \in 1..NumReduceOps :
          \/ \E op \in Kinds : ConstructFromKind(r, op)
          \/ \E op \in Kinds, optional_supplement \in Supplements :
                ConstructWithSupplement(r, op, optional_supplement)
          \/ \E other \in 1..NumReduceOps : CopyReduceOp(r, other)
          \/ makeNCCLPreMulSum(r)
    /\ UNCHANGED <<coreVars, copyVars, lmVars, bsVars, fsVars>>
SpecReduce == InitLate /\ [][NextReduce]_vars

(***************************************************************************)
(* Properties of kernel execution                                          *)
(***************************************************************************)
\* thread t has finished at least one execute call and is not inside one
Returned(t) == pc[t] = "idle" /\ ret[t] # "none"

IsNotConstant(k) == ~is_constant_[k]

\* the schedule 1..NumOps restricted to the ops not marked constant
NonConstantSchedule == SelectSeq([k \in ExecOps |-> k], IsNotConstant)

\* thread t has executed an op not marked constant in its current call
StartedNonConstant(t) ==
    \E j \in 1..Len(execd[t]) : ~is_constant_[execd[t][j]]

\* C1: with the constant cache enabled, under every interleaving of execute
\* calls the constant-marked ops run exactly once in total, only in the one
\* call that installed the pending cache entry, and every call that reaches
\* its main loop (or has returned) has its persistent memories bound to the
\* one published constant buffer.
ConstantFoldOnce ==
    enable_constant_cache_ =>
        /\ \A k \in ExecOps : const_runs[k] <= 1
        /\ \A k \in ExecOps : ~is_constant_[k] => const_runs[k] = 0
        /\ constant_cache.ready =>
              \A k \in ExecOps : is_constant_[k] => const_runs[k] = 1
        /\ Cardinality({t \in Threads : c_buffer[t] # NoBuffer}) <= 1
        /\ \A t \in Threads :
              (pc[t] = "run" \/ Returned(t)) =>
                  /\ constant_cache.ready
                  /\ constant_cache.buf # NoBuffer
                  /\ res[t].persistent = constant_cache.buf

\* two threads have each finished a call of a kernel with a constant op, one
\* of them having folded and the other having taken the buffer from the cache
ConstantFoldOnceWitness ==
    /\ enable_constant_cache_
    /\ \E k \in ExecOps : is_constant_[k] /\ const_runs[k] = 1
    /\ \E t1, t2 \in Threads :
          /\ t1 # t2
          /\ Returned(t1) /\ c_buffer[t1] # NoBuffer
          /\ Returned(t2) /\ c_buffer[t2] = NoBuffer
          /\ res[t1].persistent = res[t2].persistent

\* C8: execute returns success only if every op execution of the call
\* succeeded; otherwise it returns the status of the first failing op and no
\* op scheduled after the failing one is executed in that call.
ExecutePropagatesFirstFailure ==
    \A t \in Threads :
        Returned(t) => ret[t] = first_fail[t] /\ ~ran_after_fail[t]

\* C9: in every execute call that returns, each op not marked constant has
\* been executed exactly once, in increasing schedule-index order.
NonConstantOpsRunOnceInOrder ==
    \A t \in Threads :
        Returned(t) => SelectSeq(execd[t], IsNotConstant) = NonConstantSchedule

\* a call that ran at least two non-constant ops has returned
NonConstantOpsRunOnceInOrderWitness ==
    \E t \in Threads :
        /\ Returned(t)
        /\ Len(SelectSeq(execd[t], IsNotConstant)) >= 2

\* C10: with the constant cache enabled, no op that is not marked constant
\* starts in a call before every constant-marked op has run and the constant
\* buffer has been published, whoever did the fold.
NonConstantAfterPublish ==
    enable_constant_cache_ =>
        \A t \in Threads :
            (pc[t] = "run" \/ StartedNonConstant(t)) =>
                /\ constant_cache.ready
                /\ \A k \in ExecOps : is_constant_[k] => const_runs[k] >= 1

\* a call that waited on another thread's fold is running a non-constant op
NonConstantAfterPublishWitness ==
    /\ enable_constant_cache_
    /\ \E k \in ExecOps : is_constant_[k]
    /\ \E t \in Threads :
          /\ pc[t] = "run"
          /\ calls[t] = 0
          /\ c_buffer[t] = NoBuffer
          /\ StartedNonConstant(t)

\* thread t has executed a constant-marked op in its current call
RanConstant(t) == \E j \in 1..Len(execd[t]) : is_constant_[execd[t][j]]

\* C11: with constant caching enabled, an execute call that finds another
\* thread's pending constant-cache entry blocks until the entry is resolved
\* and proceeds without running constant ops; under fair scheduling every
\* blocked call eventually resumes and returns.
BlockedCallsResume ==
    /\ [](\A t \in Threads :
            blocked[t] =>
                /\ enable_constant_cache_
                /\ ~RanConstant(t)
                /\ (pc[t] # "wait" => constant_cache.ready))
    /\ \A t \in Threads :
          (blocked[t] /\ pc[t] = "wait") ~> (blocked[t] /\ Returned(t))

\* a call that found the entry of a kernel with a constant op pending has
\* returned after running a non-constant op
BlockedCallsResumeWitness ==
    \E t \in Threads :
        /\ blocked[t]
        /\ Returned(t)
        /\ \E k \in ExecOps : is_constant_[k]
        /\ execd[t] # <<>>

\* thread t has entered execute at least once
HasExecuted(t) == calls[t] > 0 \/ pc[t] # "idle"

\* C12: for each thread the resource constructor of the kernel is invoked at
\* most once, lazily on the thread's first execute call, and the argument
\* set it made is only ever bound by that thread: no two threads bind
\* handles into the same argument set.
ResourcePerThread ==
    /\ \A t \in Threads : ctor_calls[t] <= 1
    /\ \A t \in Threads : ctor_calls[t] = 1 <=> HasExecuted(t)
    /\ \A a \in Threads : Cardinality(binders[a]) <= 1
    /\ \A t1, t2 \in Threads :
          (t1 # t2 /\ res_of(t1) # 0) => res_of(t1) # res_of(t2)

\* two threads are inside execute at the same time, one of them in its
\* second call
ResourcePerThreadWitness ==
    \E t1, t2 \in Threads :
        /\ t1 # t2
        /\ pc[t1] # "idle" /\ calls[t1] = 1
        /\ pc[t2] # "idle"
        /\ ctor_calls[t1] = 1 /\ ctor_calls[t2] = 1

\* C18: a failed execute call does not invalidate the compiled kernel: after
\* a call in which an op execution failed, a further execute call on the
\* kernel is still carried out, runs the whole schedule and returns success
\* when its own ops succeed.
FailedExecuteKeepsKernel ==
    \A t \in Threads :
        prev_failed[t] =>
            /\ (pc[t] = "idle" /\ calls[t] < MaxCalls)
                  => ENABLED ExecuteBegin(t)
            /\ Returned(t) =>
                  /\ SelectSeq(execd[t], IsNotConstant) = NonConstantSchedule
                  /\ first_fail[t] = "success" => ret[t] = "success"

\* a thread whose first call had a failing op has finished a second call in
\* which every op succeeded
FailedExecuteKeepsKernelWitness ==
    \E t \in Threads :
        /\ prev_failed[t]
        /\ Returned(t)
        /\ calls[t] = 2
        /\ execd[t] # <<>>
        /\ first_fail[t] = "success"
        /\ ret[t] = "success"

\* C19: the scratch buffer an execute call acquires for the temporary arena
\* is released by the time the call returns, on every exit path: it is held
\* exactly while the call is in progress.
ScratchpadScopedToCall ==
    \A t \in Threads : scratchpad[t] <=> pc[t] # "idle"

\* a call in which an op failed has returned and holds no scratchpad while
\* another thread's call holds its own
ScratchpadScopedToCallWitness ==
    \E t1, t2 \in Threads :
        /\ Returned(t1)
        /\ first_fail[t1] # "success"
        /\ ~scratchpad[t1]
        /\ pc[t2] = "run"
        /\ scratchpad[t2]

\* C23: successive execute calls on the same compiled kernel with identical
\* concrete inputs produce identical outputs, also when the first call folds
\* the constants and a later one reads them from the cache: all calls
\* finished on one kernel computed the same.
ExecuteDeterministic == \A o1, o2 \in outs : o1 = o2

\* two calls have finished on a kernel with a constant and a non-constant
\* op: one folded the constants, the other was served from the cache, and
\* one output stands for both
ExecuteDeterministicWitness ==
    /\ \E t \in Threads : calls[t] = 1 /\ pc[t] = "idle" /\ c_buffer[t] # NoBuffer
    /\ \E t \in Threads : calls[t] = 1 /\ pc[t] = "idle" /\ c_buffer[t] = NoBuffer
                             /\ res[t].persistent # NoBuffer
    /\ \E k \in ExecOps : is_constant_[k]
    /\ \E o \in outs : o # <<>>

\* C30: when a compiled kernel is destroyed its entries in the thread-local
\* cache and, with constant caching enabled, in the global constant cache
\* are removed: whatever entry the caches hold for the address was made for
\* the kernel living there now, so no call works on argument sets or folded
\* constants of a destroyed kernel.
DestroyedKernelLeavesNoEntries ==
    /\ \A s \in Threads : tl_cache[s] # 0 => tl_gen[s] = kernel_gen
    /\ constant_cache.installed => cache_gen = kernel_gen
    /\ \A t \in Threads :
          res[t].persistent # NoBuffer =>
              res[t].persistent = constant_cache.buf \/ pc[t] = "fold"

\* the second kernel at the address has folded its own constants into a
\* second buffer, after the first kernel had folded and cached its own
DestroyedKernelLeavesNoEntriesWitness ==
    /\ kernel_gen = MaxKernels
    /\ constant_cache.ready /\ cache_gen = kernel_gen
    /\ constant_cache.buf > 1
    /\ \E t \in Threads : calls[t] = 1 /\ tl_gen[thread_local_slot(t)] = kernel_gen

(***************************************************************************)
(* Properties of the pass pipeline                                         *)
(***************************************************************************)
\* the invocation run makes at position j when nothing fails:
\* pass 1, visualizer 1, validator 1, pass 2, ...
ExpectedKind(j) ==
    CASE j % 3 = 1 -> "pass"
      [] j % 3 = 2 -> "visualize"
      [] OTHER -> "validate"

ExpectedIndex(j) == ((j - 1) \div 3) + 1

\* positions of pipe_log that hold a pass or a validator invocation
FailingPositions ==
    {j \in 1..Len(pipe_log) :
        pipe_log[j].kind # "visualize" /\ pipe_log[j].st # "success"}

\* C6: run invokes the added passes strictly in the order of the add_pass
\* calls, each at most once, and after every pass that returned success the
\* validator runs before the next pass starts.
PassesRunInAddOrder ==
    \A j \in 1..Len(pipe_log) :
        /\ pipe_log[j].kind = ExpectedKind(j)
        /\ pipe_log[j].i = ExpectedIndex(j)
        /\ pipe_log[j].i <= Len(add_order)
        /\ pipe_log[j].kind = "pass" =>
              /\ pipe_log[j].fn = add_order[pipe_log[j].i]
              /\ j > 1 => /\ pipe_log[j - 1].kind = "validate"
                          /\ pipe_log[j - 1].i = pipe_log[j].i - 1
                          /\ pipe_log[j - 3].kind = "pass"
                          /\ pipe_log[j - 3].st = "success"

\* a run over two different passes has invoked the second pass
PassesRunInAddOrderWitness ==
    /\ Len(add_order) >= 2
    /\ add_order[1] # add_order[2]
    /\ \E j \in 1..Len(pipe_log) :
          pipe_log[j].kind = "pass" /\ pipe_log[j].i = 2

\* C7: if a pass or the validation after a pass returns a non-success status,
\* run returns exactly that first failing status and invokes no later pass;
\* run returns success only if every added pass and every validation
\* succeeded.
RunReturnsFirstFailure ==
    pipe_pc = "done" =>
        /\ FailingPositions # {} =>
              /\ FailingPositions = {Len(pipe_log)}
              /\ pipe_ret = pipe_log[Len(pipe_log)].st
        /\ FailingPositions = {} =>
              /\ pipe_ret = "success"
              /\ Len(pipe_log) = 3 * Len(add_order)
        /\ pipe_ret = "success" =>
              \A i \in 1..Len(add_order) :
                 /\ \E j \in 1..Len(pipe_log) :
                       /\ pipe_log[j].kind = "pass"
                       /\ pipe_log[j].i = i
                       /\ pipe_log[j].st = "success"
                 /\ \E j \in 1..Len(pipe_log) :
                       /\ pipe_log[j].kind = "validate"
                       /\ pipe_log[j].i = i
                       /\ pipe_log[j].st = "success"

\* a run has returned the failing status of a validation that followed a
\* successful first pass, with a further pass still pending
RunReturnsFirstFailureWitness ==
    /\ pipe_pc = "done"
    /\ Len(add_order) >= 2
    /\ Len(pipe_log) = 3
    /\ pipe_log[3].kind = "validate"
    /\ pipe_ret = pipe_log[3].st
    /\ pipe_ret # "success"

(***************************************************************************)
(* Properties of the partitioner                                           *)
(***************************************************************************)
Partitions == 1..Len(partition_impls_)

\* the ops of some op set that consume / produce value v
ProducedIn(v, ops) == has_producer(v) /\ get_producer(v) \in ops
IsInputOf(v, ops) == \E op \in ops : v \in OpInputs(op)
IsOutputOf(v, ops) == \E op \in ops : v \in OpOutputs(op)

\* C2: after partitioning with any number of patterns, the op sets of any two
\* partitions of the graph's partition list are disjoint, and no op is added
\* to, or marked as belonging to, a partition other than the one holding it.
PartitionsDisjoint ==
    /\ \A p, q \in Partitions :
          p # q => partition_impls_[p].ops \cap partition_impls_[q].ops = {}
    /\ \A p \in Partitions : \A op \in GOps :
          op \in partition_impls_[p].ops <=> g_partition[op] = p

\* two patterns have each contributed a partition to the graph
PartitionsDisjointWitness ==
    /\ part_pc = "done"
    /\ pattern_no = 2
    /\ Len(partition_impls_) >= 2
    /\ \E op \in GOps : g_partition[op] = 0

\* C4: for every partition set_partitions adds, a value is recorded as a
\* partition input iff it is an input of some op of the partition and it has
\* no producer or its producer is not an op of the partition.
PartitionInputsAreBoundary ==
    \A p \in Partitions : \A v \in GValues :
        v \in partition_impls_[p].inputs
            <=> /\ IsInputOf(v, partition_impls_[p].ops)
                /\ ~ProducedIn(v, partition_impls_[p].ops)

\* a partition of two ops with an internal value, an input without producer
\* and an input produced by an op outside the partition
PartitionInputsAreBoundaryWitness ==
    \E p \in Partitions :
        LET part == partition_impls_[p] IN
        /\ Cardinality(part.ops) >= 2
        /\ \E v \in GValues : IsInputOf(v, part.ops) /\ ProducedIn(v, part.ops)
        /\ \E v \in part.inputs : ~has_producer(v)
        /\ \E v \in part.inputs : has_producer(v)

\* C5: for every partition set_partitions adds, a value is recorded as a
\* partition output iff it is an output of some op of the partition and it
\* has no consumers or at least one consumer that is not an op of the
\* partition.
PartitionOutputsAreBoundary ==
    \A p \in Partitions : \A v \in GValues :
        v \in partition_impls_[p].outputs
            <=> /\ IsOutputOf(v, partition_impls_[p].ops)
                /\ \/ g_consumers[v] = {}
                   \/ g_consumers[v] \ partition_impls_[p].ops # {}

\* a partition with an output nobody consumes and an output consumed both
\* inside and outside the partition
PartitionOutputsAreBoundaryWitness ==
    \E p \in Partitions :
        LET part == partition_impls_[p] IN
        /\ \E v \in part.outputs : g_consumers[v] = {}
        /\ \E v \in part.outputs :
              /\ g_consumers[v] \cap part.ops # {}
              /\ g_consumers[v] \ part.ops # {}

\* set_partitions has dealt with the k-th match of the current pattern
Processed(k) ==
    /\ k \in 1..Len(fusion_ops)
    /\ \/ part_pc = "set_partitions" /\ k < pairs_i
       \/ part_pc = "done"

\* a boundary logical tensor of the op list fails validation
BoundaryInvalid(pairs) ==
    \E v \in PartitionInputs(pairs) \cup PartitionOutputs(pairs) :
        ~check_logical_tensor_validity(g_lt[v])

\* C20: if any boundary (input or output) logical tensor of a matched op list
\* fails validation, set_partitions adds no partition for that match, leaves
\* every op of the match unassigned to any partition, and continues with the
\* remaining matches.
InvalidMatchDropped ==
    /\ [](\A k \in 1..Len(fusion_ops) :
            (Processed(k) /\ BoundaryInvalid(fusion_ops[k])) =>
                /\ \A p \in Partitions :
                      partition_impls_[p].ops \cap fusion_ops[k] = {}
                /\ \A op \in fusion_ops[k] : g_partition[op] = 0)
    /\ [][(SetPartitionsStep /\ BoundaryInvalid(fusion_ops[pairs_i]))
              => /\ partition_impls_' = partition_impls_
                 /\ g_partition' = g_partition
                 /\ part_pc' = "set_partitions"
                 /\ pairs_i' = pairs_i + 1]_vars

\* of two matches of one pattern the first was dropped for an invalid
\* boundary and the second, processed after it, became a partition
InvalidMatchDroppedWitness ==
    \E k, m \in 1..Len(fusion_ops) :
        /\ k < m
        /\ Processed(m)
        /\ BoundaryInvalid(fusion_ops[k])
        /\ \A op \in fusion_ops[k] : g_partition[op] = 0
        /\ \E p \in Partitions : partition_impls_[p].ops = fusion_ops[m]

\* C21: every partition that set_partitions adds has only boundary logical
\* tensors with strided layout, fully known shape and dense strides; a match
\* with a boundary tensor that has an unknown dimension is rejected.
PartitionBoundaryShapesKnown ==
    \A p \in Partitions :
        \A v \in partition_impls_[p].inputs \cup partition_impls_[p].outputs :
            /\ g_lt[v].layout_type = "strided"
            /\ \A d \in 1..g_lt[v].ndims : g_lt[v].dims[d] # UNKNOWN_DIM
            /\ check_logical_tensor_validity(g_lt[v])

(***************************************************************************)
(* Properties of the backend                                               *)
(***************************************************************************)
\* C27: registered patterns are applied to a graph in non-increasing
\* priority order: after sort_passes a pattern with higher priority is tried
\* before every pattern with lower priority, so of two patterns that match
\* overlapping ops the one with higher priority claims them unless a third
\* pattern holds one of its ops.
PatternsTriedByPriority ==
    /\ \A i, j \in 1..Len(bk_log) :
          i < j => bk_log[i].priority >= bk_log[j].priority
    /\ \A i, j \in 1..Len(bk_log) :
          LET hi == bk_log[i]
              lo == bk_log[j]
          IN (/\ hi.priority > lo.priority
              /\ hi.match \cap lo.match # {}
              /\ \A o \in hi.match : op_owner[o] \in {0, hi.name, lo.name})
                 => \A o \in hi.match : op_owner[o] = hi.name

\* a pattern registered after one of lower priority was tried before it and
\* holds the op both match
PatternsTriedByPriorityWitness ==
    /\ bk_pc = "done"
    /\ \E i, j \in 1..Len(bk_log) :
          /\ i < j
          /\ bk_log[i].name > bk_log[j].name
          /\ bk_log[i].priority > bk_log[j].priority
          /\ bk_log[i].match \cap bk_log[j].match # {}
          /\ \A o \in bk_log[i].match : op_owner[o] = bk_log[i].name

ConstantPropagationRuns(c) ==
    {i \in 1..Len(kb_ran[c]) :
        kb_ran[c][i] \in {"constant_propagation<false>",
                          "constant_propagation<true>"}}

\* positions of the run at which the pass of the given name ran
RunsOf(c, name) == {i \in 1..Len(kb_ran[c]) : kb_ran[c][i] = name}

\* C29: in the matmul and forward-pooling compile pipelines with constant
\* caching enabled, constant propagation runs exactly twice in a compile
\* that succeeds, once before layout_propagation and once after it and
\* before memory planning; with constant caching disabled constant
\* propagation is not run at all.
ConstantPropagationTwice ==
    \A c \in Compiles :
        /\ ~enable_constant_cache_ => ConstantPropagationRuns(c) = {}
        /\ (/\ enable_constant_cache_
            /\ kb_kernel \in {"matmul", "pooling_fwd"}
            /\ kb_ret[c] = "success") =>
              /\ Cardinality(ConstantPropagationRuns(c)) = 2
              /\ Cardinality(RunsOf(c, "layout_propagation")) = 1
              /\ Cardinality(RunsOf(c, "memory_plan")) = 1
              /\ \E i, j \in ConstantPropagationRuns(c) :
                    \A l \in RunsOf(c, "layout_propagation"),
                       m \in RunsOf(c, "memory_plan") :
                        i < l /\ l < j /\ j < m

\* a quantized matmul kernel with the constant cache enabled has compiled
\* a subgraph into which layout propagation inserted a reorder
ConstantPropagationTwiceWitness ==
    \E c \in Compiles :
        /\ enable_constant_cache_ /\ kb_kernel = "matmul" /\ quantized
        /\ kb_ret[c] = "success"
        /\ Cardinality(ConstantPropagationRuns(c)) = 2
        /\ kb_sg[c].execs # <<>>
        /\ \E i \in 1..Len(kb_sg[c].ops) : kb_sg[c].ops[i].kind = "reorder"

ChainFrom(cur_op, n) == [k \in 1..n |-> cur_op + k - 1]

\* the match rooted at cur_op has been collected
Collected(cur_op) ==
    \E i \in 1..Len(pm_fusion) :
        pm_fusion[i] = ChainFrom(cur_op, Len(pm_pgraph))

\* C24: matching the 4-node chain A -> alternation{Divide, Multiply} -> Add
\* -> SoftMax against a 5-op graph whose third op is Multiply succeeds and
\* returns exactly the 4 matched ops, the op matched by the alternation
\* among them; in general the alternation node matches an op exactly when
\* the kind of the op is one of the listed kinds.
AlternationMatchesListedKinds ==
    (Len(pm_pgraph) = 4 /\ pm_cur > NumChainOps) =>
        /\ (/\ pm_kind[2] = "MatMul" /\ pm_kind[3] = "Multiply"
            /\ pm_kind[4] = "Add" /\ pm_kind[5] = "SoftMax"
            /\ pm_ext \cap {2, 3, 4} = {})
              => pm_fusion = << <<2, 3, 4, 5>> >>
        /\ \A c \in 1..2 :
              (/\ pm_kind[c] = "MatMul" /\ pm_kind[c + 2] = "Add"
               /\ pm_kind[c + 3] = "SoftMax"
               /\ pm_ext \cap {c, c + 1, c + 2} = {})
                 => (Collected(c) <=> pm_kind[c + 1] \in {"Divide", "Multiply"})

\* the graph of the scenario has been visited and its one match collected
AlternationMatchesListedKindsWitness ==
    /\ Len(pm_pgraph) = 4 /\ pm_cur > NumChainOps
    /\ pm_kind[2] = "MatMul" /\ pm_kind[3] = "Multiply"
    /\ pm_kind[4] = "Add" /\ pm_kind[5] = "SoftMax"
    /\ pm_fusion = << <<2, 3, 4, 5>> >>

\* C25: a match is disqualified when a matched op bound to a pattern node
\* whose output feeds another pattern node has a consumer outside the
\* matched ops, unless that node was marked allow-external-output, in which
\* case the match succeeds: of the chain MatMul -> Div|Mul -> Add -> SoftMax
\* -> Mul only the SoftMax node carries the mark among the feeding nodes.
ExternalConsumerDisqualifies ==
    (/\ Len(pm_pgraph) = 5 /\ pm_cur > NumChainOps
     /\ pm_kind[1] = "MatMul" /\ pm_kind[2] \in {"Divide", "Multiply"}
     /\ pm_kind[3] = "Add" /\ pm_kind[4] = "SoftMax"
     /\ pm_kind[5] = "Multiply")
        => (Collected(1) <=> pm_ext \cap {1, 2, 3} = {})

\* the Add op of a chain that otherwise matches has a consumer outside the
\* chain and no match was collected
ExternalConsumerDisqualifiesWitness ==
    /\ Len(pm_pgraph) = 5 /\ pm_cur > NumChainOps
    /\ pm_kind[1] = "MatMul" /\ pm_kind[2] \in {"Divide", "Multiply"}
    /\ pm_kind[3] = "Add" /\ pm_kind[4] = "SoftMax"
    /\ pm_kind[5] = "Multiply"
    /\ pm_ext = {3}
    /\ pm_fusion = <<>>

(***************************************************************************)
(* Properties of the memory planner                                        *)
(***************************************************************************)
\* the liveness tick intervals of a and b overlap
LivenessOverlap(a, b) ==
    FirstUse(a) <= LastUse(b) /\ FirstUse(b) <= LastUse(a)

\* C3: in every memory plan, any two internal temporary buffers whose
\* liveness tick intervals overlap are assigned byte ranges
\* [offset, offset + size) that do not overlap, unless the two are a declared
\* in-place pair.
MemoryPlanSound ==
    \A a, b \in planned :
        (a # b /\ LivenessOverlap(a, b)
              /\ ~InplacePair(a, b) /\ ~InplacePair(b, a))
            => ~RangesOverlap(buf_offset[a], buf_size[a],
                              buf_offset[b], buf_size[b])

\* a complete plan in which two buffers live at the same tick lie side by
\* side while a third, live later, reuses the offset of the first
MemoryPlanSoundWitness ==
    /\ planned = Bufs
    /\ \E a, b, c \in Bufs :
          /\ a # b /\ LivenessOverlap(a, b)
          /\ ~InplacePair(a, b) /\ ~InplacePair(b, a)
          /\ buf_offset[a] = 0 /\ buf_offset[b] = buf_size[a]
          /\ ~LivenessOverlap(a, c)
          /\ buf_offset[c] = 0

\* C26: the planner reuses offsets for temporary buffers with
\* non-overlapping lifetimes: the plan of two buffers that are never live at
\* the same tick, such as 100 bytes over ticks 0..2 and 50 bytes over ticks
\* 3..5, gives both offset 0, not 0 and 100.
DisjointLifetimesShareOffset ==
    (/\ Bufs = {1, 2} /\ planned = Bufs
     /\ ~LivenessOverlap(1, 2)
     /\ ~InplacePair(1, 2))
        => buf_offset[1] = 0 /\ buf_offset[2] = 0

\* the plan of the scenario: 100 bytes over ticks 0..2 and 50 bytes over
\* ticks 3..5, both placed at offset 0 in an arena of 100 bytes
DisjointLifetimesShareOffsetWitness ==
    /\ Bufs = {1, 2} /\ planned = Bufs
    /\ buf_size = <<100, 50>>
    /\ buf_life = <<(<<0, 2>>), (<<3, 5>>)>>
    /\ inplace_of = <<0, 0>>
    /\ buf_offset = <<0, 0>>
    /\ total_temporary = 100

(***************************************************************************)
(* Properties of graph construction and shape inference                    *)
(***************************************************************************)
\* C13: add_op is idempotent by op id: a call with an op whose id equals that
\* of an op already in the graph returns success and leaves the op list
\* unchanged, so after any sequence of add_op calls the graph holds no two
\* ops with the same id.
AddOpIdempotent ==
    /\ [](\A i, j \in 1..Len(ops_) : i # j => ops_[i].id # ops_[j].id)
    /\ [][(AddOp(l_n_in') /\ l_n_in' # NullOp /\ l_n_in'.id \in IdsOf(ops_))
              => (g_ret' = "success" /\ ops_' = ops_)]_vars

\* add_op has returned success for an op whose id is held by an op of the
\* graph of another kind: the call found the id and added nothing
AddOpIdempotentWitness ==
    /\ g_fn = "add_op"
    /\ g_ret = "success"
    /\ Len(ops_) >= 2
    /\ \E j \in 1..Len(ops_) :
          ops_[j].id = l_n_in.id /\ ops_[j].kind # l_n_in.kind

\* the op violates the schema registered for its kind once the default
\* attributes are applied
ViolatesSchema(l_n) ==
    /\ get_op_schema(l_n.kind) # NoSchema
    /\ ~verify(set_default_attribute(l_n))

\* C14: add_op of an op whose id is not yet in the graph and which violates
\* the registered schema of its kind, checked after the default attributes
\* are applied, returns invalid_op and adds nothing: the op list is unchanged
\* and the caller's op is not modified.
AddOpRejectsSchemaViolation ==
    [][(/\ AddOp(l_n_in')
        /\ l_n_in' # NullOp
        /\ l_n_in'.id \notin IdsOf(ops_)
        /\ ViolatesSchema(l_n_in'))
          => /\ g_ret' = "invalid_op"
             /\ ops_' = ops_
             /\ l_n_out' = l_n_in']_vars

\* add_op has returned invalid_op for an op of a registered kind whose id is
\* not in the non-empty graph, and the caller's op is as it was handed in
AddOpRejectsSchemaViolationWitness ==
    /\ g_fn = "add_op"
    /\ g_ret = "invalid_op"
    /\ l_n_in # NullOp
    /\ ViolatesSchema(l_n_in)
    /\ ops_ # <<>>
    /\ l_n_in.id \notin IdsOf(ops_)
    /\ l_n_out = l_n_in

\* C15: infer_shape returns invalid_shape, without modifying the output
\* descriptor of any op, if an input value of the graph (a value with no
\* producer inside the graph) has an unknown shape.
InferShapeUnknownInput ==
    [][(/\ InferBegin
        /\ \E v \in get_input_values(ops_) : val_shape[v] = "unknown")
          => /\ g_ret' = "invalid_shape"
             /\ infer_pc' = "idle"
             /\ infer_visited' = {}
             /\ val_shape' = val_shape]_vars

\* infer_shape has returned invalid_shape without a visit on a graph of two
\* ops one of whose input values has an unknown shape while another op's
\* output shape is still unknown
InferShapeUnknownInputWitness ==
    /\ g_fn = "infer_shape"
    /\ infer_pc = "idle"
    /\ g_ret = "invalid_shape"
    /\ infer_visited = {}
    /\ Len(ops_) >= 2
    /\ \E v \in get_input_values(ops_) : val_shape[v] = "unknown"
    /\ \E v \in get_input_values(ops_) : val_shape[v] = "known"
    /\ \E j \in 1..Len(ops_) : val_shape[ops_[j].id] = "unknown"

\* C16: infer_shape fails with the invalid_shape status when it visits an op
\* whose kind has no registered schema.
InferShapeNoSchemaInvalidShape ==
    [][(/\ infer_pc = "visit"
        /\ \E j \in 1..Len(ops_) :
              /\ ops_[j].id \in infer_visited' \ infer_visited
              /\ get_op_schema(ops_[j].kind) = NoSchema)
          => (infer_pc' = "idle" /\ g_ret' = "invalid_shape")]_vars

(***************************************************************************)
(* Properties of kernel compilation                                        *)
(***************************************************************************)
\* the first failing status of a compile call ("success": none failed)
CompileFailure ==
    IF bind_ret # "success" THEN bind_ret ELSE pipe_ret

\* C17: if kernel compile fails (binding the given inputs/outputs or a pass
\* of the pipeline returns non-success), compile returns that status and the
\* kernel is left uncompiled: no resource constructor is installed, in-place
\* pairs are not prepared and the caller's logical tensors are not
\* overwritten.
CompileFailureLeavesUncompiled ==
    (compile_pc = "returned" /\ CompileFailure # "success")
        => /\ compile_ret = CompileFailure
           /\ ~resource_ctor_
           /\ ~inplace_pairs_
           /\ given_lts = "as_given"

\* compile has returned the failing status of the second pass of a pipeline
CompileFailureLeavesUncompiledWitness ==
    /\ compile_pc = "returned"
    /\ bind_ret = "success"
    /\ pipe_i = 2
    /\ pipe_ret \notin {"success", "none"}
    /\ compile_ret = pipe_ret

(***************************************************************************)
(* Properties of the copy construction of a graph                          *)
(***************************************************************************)
\* the addresses of the value objects of the ops of graph g
ValuesOf(g) == {op_objs[cp_ops_[g][i]].out : i \in 1..Len(cp_ops_[g])}

\* C31: the copy constructor gives the copy new op and value objects with
\* the contents of the original's and the partition objects of the original:
\* right after the copy the two graphs share no op and no value, read the
\* same, and have the same partition pointers; and a mutation made through
\* one graph leaves what the other graph reads unchanged.
CopyIsDeep ==
    /\ cp_last.kind = "copy" =>
           /\ \A i \in 1..Len(cp_ops_[1]), j \in 1..Len(cp_ops_[2]) :
                  cp_ops_[1][i] # cp_ops_[2][j]
           /\ ValuesOf(1) \cap ValuesOf(2) = {}
           /\ GraphView(2) = GraphView(1)
           /\ GraphView(1) = cp_last.before
           /\ cp_partition_impls_[2] = cp_partition_impls_[1]
    /\ (cp_last.kind = "mutate" /\ Len(cp_ops_) = 2) =>
           GraphView(3 - cp_last.g) = cp_last.before

\* a graph with ops and a partition was copied, and an op or a value of the
\* copy was then changed so that the copy no longer reads as the original
CopyIsDeepWitness ==
    /\ Len(cp_ops_) = 2
    /\ cp_last.kind = "mutate"
    /\ cp_last.g = 2
    /\ cp_ops_[1] # <<>>
    /\ Len(cp_ops_[2]) = Len(cp_ops_[1])
    /\ GraphView(2) # GraphView(1)
    /\ cp_partition_impls_[2] # <<>>
    /\ cp_partition_impls_[2] = cp_partition_impls_[1]

(***************************************************************************)
(* Properties of the compile_impl of the pooling kernel                    *)
(***************************************************************************)
\* C32: a forward-pooling kernel given a first input and a first output of
\* different data types returns unsupported from compile_impl with no
\* subgraph built, no pass added and no pass run.
PoolingDataTypeMismatchUnsupported ==
    \A c \in Compiles :
        (/\ kb_kernel = "pooling_fwd"
         /\ kb_data_types[1] # kb_data_types[2]
         /\ kb_pc[c] # "add") =>
            /\ kb_pc[c] = "done"
            /\ kb_ret[c] = "unsupported"
            /\ ~kb_sg[c].built
            /\ kb_added[c] = <<>>
            /\ kb_ran[c] = <<>>
            /\ kb_sg[c].execs = <<>>

\* a forward-pooling kernel was compiled with a u8 input and an s8 output
PoolingDataTypeMismatchUnsupportedWitness ==
    /\ kb_kernel = "pooling_fwd"
    /\ kb_data_types = <<"u8", "s8">>
    /\ \A c \in Compiles : kb_pc[c] = "done" /\ kb_ret[c] = "unsupported"

(***************************************************************************)
(* Properties of the layout id manager                                     *)
(***************************************************************************)
\* C33: under every interleaving of set_mem_desc calls, descriptors that
\* compare equal were given the same layout id and descriptors that compare
\* unequal were given different ids, and no two entries of the table
\* compare equal.
LayoutIdsUnique ==
    /\ \A p, q \in lm_issued :
          is_mem_desc_equal(p[1], q[1]) <=> p[2] = q[2]
    /\ \A i, j \in 1..Len(mem_descs_data_) :
          is_mem_desc_equal(mem_descs_data_[i], mem_descs_data_[j]) => i = j

\* the two threads have each registered both descriptors, through objects
\* of their own, and the table holds two entries
LayoutIdsUniqueWitness ==
    /\ Len(mem_descs_data_) = NumDescs
    /\ \A t \in Threads, d \in 1..NumDescs :
          \E p \in lm_issued : p[1] = [md |-> d, obj |-> t]

\* C37: a layout id that set_mem_desc returned stays valid: whatever calls
\* follow, get_mem_desc of the id returns a descriptor equal to the one
\* registered under it.
LayoutIdStaysValid ==
    \A p \in lm_issued :
        /\ get_mem_desc(p[2]) # <<>>
        /\ is_mem_desc_equal(get_mem_desc(p[2]), p[1])

\* an id was returned for the first entry of the table and another
\* descriptor was registered after it
LayoutIdStaysValidWitness ==
    /\ Len(mem_descs_data_) > 1
    /\ \E p, q \in lm_issued : p[2] = 0 /\ q[2] = Len(mem_descs_data_) - 1
    /\ \A t \in Threads : lm_pc[t] = "idle"

(***************************************************************************)
(* Properties of the buffer scheduler                                      *)
(***************************************************************************)
\* the ticks of the tensors as the statements of the function give them
FunctionTicks ==
    [t \in Tensors |->
        LET reads == {k \in 1..MaxTick : bs_prog[k].rd = t}
            writes == {k \in 1..MaxTick : bs_prog[k].wr = t}
        IN [first_access |-> CHOOSE k \in reads \cup writes :
                                \A j \in reads \cup writes : k <= j,
            last_read |-> CHOOSE k \in reads : \A j \in reads : j <= k,
            writes |-> writes]]

\* the tensor whose buffer tensor t ends up in
RECURSIVE BufferOf(_)
BufferOf(t) == IF bs_buf[t] = t THEN t ELSE BufferOf(bs_buf[t])

DeclaredAs(name) == {i \in 1..Len(fs_decl) : fs_decl[i].name = name}

InferShapeVisitsEveryOp ==
    (g_fn = "infer_shape" /\ infer_pc = "idle" /\ g_ret = "success") =>
        /\ infer_visited = IdsOf(ops_)
        /\ \A id \in IdsOf(ops_) : val_shape[id] = "known"

(***************************************************************************)
(* Properties of execution without the constant cache                      *)
(***************************************************************************)
\* C39: with constant caching disabled no op of the compiled subgraph is
\* marked constant, and every execute call executes every scheduled op, in
\* schedule order.
DisabledCacheExecutesEveryOp ==
    \A c \in Compiles :
        (~enable_constant_cache_ /\ kb_exec[c].calls > 0) =>
            /\ \A i \in 1..Len(kb_sg[c].is_constant) : ~kb_sg[c].is_constant[i]
            /\ kb_exec[c].ran = [i \in 1..Len(kb_sg[c].execs) |-> i]

\* with constant caching disabled a kernel has executed twice its subgraph
\* of three ops, one of them fed by constants only, all three each time
DisabledCacheExecutesEveryOpWitness ==
    /\ ~enable_constant_cache_
    /\ \E c \in Compiles :
          /\ kb_exec[c].calls = MaxCalls
          /\ Len(kb_sg[c].execs) > MaxSgOps
          /\ \E i \in 1..Len(kb_sg[c].ops) : kb_sg[c].ops[i].const_in
          /\ kb_exec[c].ran = [i \in 1..Len(kb_sg[c].execs) |-> i]

(***************************************************************************)
(* Properties of ReduceOp                                                  *)
(***************************************************************************)
\* C40: every ReduceOp made by a constructor, a copy or makeNCCLPreMulSum
\* has a supplement that is not null if its kind is PREMUL_SUM.
PremulSumHasSupplement ==
    \A r \in 1..NumReduceOps :
        reduce_ops[r].op_ = "PREMUL_SUM" => reduce_ops[r].supplement_ # 0

====
